---------------------------- MODULE Spec2Model ----------------------------
(***************************************************************************)
(* A model of the BMAD <-> Linear synchronisation engine (.sync/lib).      *)
(*                                                                         *)
(* Three state machines share this module:                                 *)
(*   Spec          one project's pipeline: SyncEngine.sync (planning) and  *)
(*                 SyncEngine.apply over the state files of the project    *)
(*   SpecLock      StateManager._file_lock under concurrent acquirers      *)
(*   SpecPortfolio BulkSyncEngine.sync_all / sync_project over a pool of   *)
(*                 worker threads                                          *)
(*                                                                         *)
(* Abstractions: the text of a markdown file is a version number (body)    *)
(* plus the tracker marker inserted into it; sha256 of the normalised text *)
(* is taken to be injective, so a hash is the pair <<body, marker>>.  A   *)
(* content key is the record [t, e, s, slug] for the strings "epic-<e>"   *)
(* and "<e>-<s>-<slug>".  A tracker id "RAE-<n>" is the number n, and 0    *)
(* stands for None.  A JSON object is a function whose domain is its set   *)
(* of keys.                                                                *)
(***************************************************************************)
EXTENDS Integers, Sequences, FiniteSets, TLC

\* ------------------------------------------------------------------ bounds
\* Acquirers (threads or processes) of one lock file.
NumAcquirers == 3
\* Lock-file inodes that may be created (bounds the number of acquisitions).
MaxInodes == 3
\* Iterations of the retry loop before the timeout (timeout / 0.1 s).
LockRetries == 1
\* Stories 1-1-setup .. 1-<NumStories>-setup of the one local epic.
NumStories == 1
\* Number of sync runs (plan, then apply) of one project that are followed.
MaxRuns == 2
\* Projects registered in the portfolio.
NumProjects == 2
\* Threads of the executor's pool (the largest max_workers considered).
MaxWorkers == 2
\* Largest number of operations one project's plan holds in the portfolio model.
MaxOps == 2
\* Timestamps are the instants 0..MaxTime, written with or without a zone.
MaxTime == 2
\* Largest length of the pending conflict queue that is followed.
MaxPending == 2
\* Resolutions applied before the model stops following.
MaxResolutions == 2
\* EpicNumberingSystem objects over the one registry file.
NumSystems == 2
\* Epics 1..MaxEpics have their ranges reserved.
MaxEpics == 2
\* Numbers per epic (block_size) of the story numbering system.
BlockSize == 2
\* Conflicts and renumberings the registry logs before the model stops following.
MaxLogged == 1
\* Largest retry budget of a tracker call (max_retries defaults to 3).
MaxRetries == 3

\* Largest number of update_sync_state calls made on top of the earlier runs.
MaxCalls == 3
\* First number the tracker hands out (epic_base of the numbering defaults).
TrackerBase == 360

VARIABLES
    \* ---- one project (Spec)
    files,          \* local markdown files under docs_bmad
    content_index,  \* content_index.json
    sync_state,     \* sync_state.json
    registry,       \* number_registry.json
    hier,           \* hierarchy.json
    backup,         \* backups/pre-sync-<ts>/ of the current apply
    nextId,         \* the tracker: number of the next issue it creates
    created,        \* tracker ids created during the current apply
    cfg,            \* engine flags: [mode, dry_run]
    ops,            \* the planned operations, in order
    pos,            \* 1-based index of the next operation apply works on
    pc,             \* "idle" | "planned" | "detected" | "applying" | "applied"
    success,        \* apply's success counter
    failed,         \* apply's failed counter
    applied,        \* the operations apply has worked on, in execution order
    startFiles,     \* history: the state files when the current apply started
    firstApplyOk,   \* history: the previous run's apply had no failure
    run,            \* number of sync runs started
    \* ---- the lock file of one state file (SpecLock)
    lk_path,        \* inode the .lock path names, 0 when the path does not exist
    lk_inodes,      \* number of lock-file inodes created so far
    lk_owner,       \* inode -> the acquirer holding its flock, 0 when free
    lk_pc,          \* acquirer -> position in _file_lock
    lk_fd,          \* acquirer -> inode its lock_fd is open on, 0 when none
    lk_elapsed,     \* acquirer -> number of sleeps of the retry loop
    lk_timeouts,    \* history: number of StateError timeouts raised
    \* ---- the portfolio executor (SpecPortfolio)
    bulk,           \* the call: [selected, max_workers, dry_run, callback]
    work_queue,     \* submitted tasks no pool thread has taken yet
    tasks,          \* project -> position and locals of its task on a pool thread
    cwd,            \* the process's working directory, 0 is the launch directory
    state_mapper,   \* project whose .sync the global _state_mapper is bound to, 0 is None
    collected,      \* projects whose future as_completed has yielded
    project_results,\* the list project_results
    bulk_result,    \* the BulkSyncResult, once returned
    \* ---- one call of a function without side effects (SpecPure)
    call,           \* the function called and its arguments
    ret,            \* [done, value]: what the call returned or raised
    \* ---- the conflict queue and its resolver (SpecResolver)
    pending,        \* conflicts/pending.json: the list of pending conflicts
    resolution_history, \* resolution_history.json
    state_history,  \* state_history.json, as the list of logged changes
    metric_entries, \* number of entries of the effectiveness metrics
    clock,          \* the wall clock, in seconds
    \* ---- the number registry and its systems (SpecEpicNumbering, SpecStoryNumbering)
    number_file,    \* number_registry.json as the numbering systems keep it
    epic_systems,   \* the EpicNumberingSystem objects: [live, epic_base, block_size, registry]
    story_system,   \* the StoryNumberingSystem object, likewise
    linear_issues,  \* numbers of the issues the tracker holds
    num_ret,        \* what the last call of a numbering system returned
    \* ---- the tracker CLI wrapper (SpecWrapper)
    exec,           \* one LinctlWrapper._exec call: [pc, retries, retry_delay, attempt, invocations, delays, retried]
    \* ---- update_sync_state on one sync_state.json
    log_state,      \* sync_state.json, written by update_sync_state
    log_calls,      \* every update_sync_state call so far, in call order
    log_prior,      \* the earlier runs: how many calls, and which of them failed
    \* ---- applies and rollback_last on one project's state files (SpecRollback)
    rb,             \* [files, backups, clock, pc, backup_root, failed, start, outcomes, written, rolled_back]
    \* ---- the engine's sync report and conflict detection (Spec)
    report,         \* state/sync_report.json: [written, operations]
    detected        \* keys whose conflicts the engine appended to conflicts/pending.json

syncVars == <<files, content_index, sync_state, registry, hier, backup, nextId,
              created, cfg, ops, pos, pc, success, failed, applied, startFiles,
              firstApplyOk, run>>

lockVars == <<lk_path, lk_inodes, lk_owner, lk_pc, lk_fd, lk_elapsed, lk_timeouts>>

portVars == <<bulk, work_queue, tasks, cwd, state_mapper, collected,
              project_results, bulk_result>>

pureVars == <<call, ret>>

resolverVars == <<pending, resolution_history, state_history, metric_entries, clock>>

numberingVars == <<number_file, epic_systems, story_system, linear_issues, num_ret>>

wrapperVars == <<exec>>

logVars == <<log_state, log_calls, log_prior>>

rollbackVars == <<rb>>

detectVars == <<report, detected>>

vars == <<syncVars, lockVars, portVars, pureVars, resolverVars, numberingVars,
      wrapperVars,
      logVars,
      rollbackVars,
      detectVars>>

\* ------------------------------------------------------------- JSON helpers
EmptyMap == <<>>

Put(m, k, v) == [x \in (DOMAIN m) \cup {k} |-> IF x = k THEN v ELSE m[x]]

Get(m, k) == IF k \in DOMAIN m THEN m[k] ELSE 0

\* ------------------------------------------------------------ content keys
EpicKey(n) == [t |-> "epic", e |-> n, s |-> 0, slug |-> ""]

StoryKey(e, s, slug) == [t |-> "story", e |-> e, s |-> s, slug |-> slug]

\* ContentDiscovery._build_current_index: an epic's key comes from the
\* "# Epic <n>" header of the file, a story's key is the file's stem.
KeyOfFile(f) ==
    IF f.t = "epic" THEN EpicKey(f.hnum) ELSE StoryKey(f.e, f.s, f.slug)

HashOfFile(f) == [body |-> f.body, marker |-> f.marker]

CurrentIndex == [k \in {KeyOfFile(f) : f \in files} |->
                    HashOfFile(CHOOSE f \in files : KeyOfFile(f) = k)]

\* content_scanner sorts the story paths; for the one-digit local numbers and
\* three-digit tracker numbers of this model the string order of the names
\* is the numeric order of (epic, story).
KeyLE(a, b) == a.e < b.e \/ (a.e = b.e /\ a.s <= b.s)

RECURSIVE SortKeys(_)
SortKeys(S) ==
    IF S = {} THEN <<>>
    ELSE LET m == CHOOSE x \in S : \A y \in S : KeyLE(x, y)
         IN  <<m>> \o SortKeys(S \ {m})


\* ------------------------------------------------------------ state store
\* HierarchyManager._create_empty_hierarchy
EmptyHierarchy ==
    [epics |-> EmptyMap, stories |-> EmptyMap,
     relationships |-> EmptyMap, children |-> EmptyMap]

\* StateManager._initialize_files: number_registry.json starts as {}.
EmptyRegistry == [stories |-> EmptyMap, renumbering_history |-> <<>>]

\* StateManager._initialize_files: sync_state.json
InitialSyncState == [last_sync |-> 0, operations |-> <<>>, errors |-> <<>>]

\* HierarchyManager.register_epic
HierRegisterEpic(h, key, id) ==
    [h EXCEPT !.epics = Put(h.epics, key, id),
              !.children = IF key \in DOMAIN h.children
                           THEN h.children
                           ELSE Put(h.children, key, <<>>)]

\* HierarchyManager.register_story, parent_epic_key given
HierRegisterStory(h, key, id, parent) ==
    LET kids == IF parent \in DOMAIN h.children THEN h.children[parent] ELSE <<>>
        kids2 == IF \E i \in 1..Len(kids) : kids[i] = key
                 THEN kids ELSE Append(kids, key)
    IN  [h EXCEPT !.stories = Put(h.stories, key, id),
                  !.relationships = Put(h.relationships, key, parent),
                  !.children = Put(h.children, parent, kids2)]

\* StateManager.register_issue, hierarchy part: an "epic-" key is an epic,
\* any other key is a story whose parent is "epic-<leading number>".
RegisterInHierarchy(h, key, id) ==
    IF key.t = "epic"
    THEN HierRegisterEpic(h, key, id)
    ELSE HierRegisterStory(h, key, id, EpicKey(key.e))

\* StateManager.register_issue, number registry part (stories only)
RegisterInRegistry(r, key, id) ==
    IF key.t = "epic" THEN r
    ELSE [r EXCEPT !.stories = Put(r.stories, key, id)]

\* HierarchyManager.get_linear_id: the epics map first, then the stories map
HierLinearId(h, key) ==
    IF Get(h.epics, key) # 0 THEN h.epics[key] ELSE Get(h.stories, key)

\* StateManager.get_issue_id: hierarchy first, number registry as fallback
GetIssueId(h, r, key) ==
    IF HierLinearId(h, key) # 0 THEN HierLinearId(h, key)
    ELSE Get(r.stories, key)

\* RenumberEngine.record_mapping: register the new key, then append to
\* renumbering_history of the number registry.
RecordMappingHier(h, old, new, id) == RegisterInHierarchy(h, new, id)

RecordMappingRegistry(r, old, new, id) ==
    LET r1 == RegisterInRegistry(r, new, id)
    IN  [r1 EXCEPT !.renumbering_history =
                      Append(@, [old_key |-> old, new_key |-> new, issue_id |-> id])]

\* Every persistent document of the project's state directory.
StateFiles ==
    [content_index |-> content_index, sync_state |-> sync_state,
     number_registry |-> registry, hierarchy |-> hier]

\* SyncEngine.apply: the files copied to backups/pre-sync-<ts>/ and copied
\* back on failure.
SnapshotFiles ==
    [content_index |-> content_index, sync_state |-> sync_state,
     number_registry |-> registry]

\* ---------------------------------------------------------------- planning
\* SyncEngine._determine_action
DetermineAction(key, reason) ==
    IF reason = "added" THEN "create" ELSE "update"

\* The reason build_operations finds for a key of the current index against
\* the previous index: "added", "modified" or "unchanged".
ReasonFor(prev, cur, key) ==
    IF key \notin DOMAIN prev THEN "added"
    ELSE IF prev[key] # cur[key] THEN "modified"
    ELSE "unchanged"

\* One pass of build_operations over the keys of one content type, in order.
RECURSIVE PlanKeys(_, _, _)
PlanKeys(keys, prev, cur) ==
    IF keys = <<>> THEN <<>>
    ELSE LET key == Head(keys)
             reason == ReasonFor(prev, cur, key)
             linear_id == GetIssueId(hier, registry, key)
             skip == \/ reason = "unchanged"
                     \/ (cfg.mode = "create_only" /\ linear_id # 0)
                     \/ (cfg.mode = "update_only" /\ linear_id = 0)
             op == [action |-> DetermineAction(key, reason),
                    content_key |-> key, content_type |-> key.t,
                    reason |-> reason, issue_id |-> linear_id]
         IN  (IF skip THEN <<>> ELSE <<op>>) \o PlanKeys(Tail(keys), prev, cur)

KeysOfType(cur, t) == {k \in DOMAIN cur : k.t = t}

\* SyncEngine.build_operations: the stories loop, then the epics loop.
BuildOperations(prev, cur) ==
    PlanKeys(SortKeys(KeysOfType(cur, "story")), prev, cur)
        \o PlanKeys(SortKeys(KeysOfType(cur, "epic")), prev, cur)

\* The summary of the plan returned by SyncEngine.sync.
CountAction(seq, a) == Cardinality({i \in 1..Len(seq) : seq[i].action = a})

Summary == [create |-> CountAction(ops, "create"),
            update |-> CountAction(ops, "update"),
            total |-> Len(ops)]


\* ------------------------------------------------------------ local content
Slug == "setup"

LocalEpic == 1

EpicFile(n, ctx, body) ==
    [t |-> "epic", e |-> n, s |-> 0, slug |-> "", ctx |-> ctx, hnum |-> n,
     body |-> body, marker |-> 0]

StoryFile(e, s, body) ==
    [t |-> "story", e |-> e, s |-> s, slug |-> Slug, ctx |-> FALSE, hnum |-> 0,
     body |-> body, marker |-> 0]

LocalKeys == {EpicKey(LocalEpic)} \cup {StoryKey(LocalEpic, i, Slug) : i \in 1..NumStories}

\* The files of a project whose epic file is epic-1-context.md (ctx) or
\* epic-1.md, the files of the keys in mod edited since the baseline.
LocalFiles(ctx, mod) ==
    {EpicFile(LocalEpic, ctx, IF EpicKey(LocalEpic) \in mod THEN 1 ELSE 0)}
        \cup {StoryFile(LocalEpic, i, IF StoryKey(LocalEpic, i, Slug) \in mod THEN 1 ELSE 0)
                 : i \in 1..NumStories}

\* An index saved (ContentDiscovery.save_index) when every file was unedited.
BaselineIndex == [k \in LocalKeys |-> [body |-> 0, marker |-> 0]]

\* Tracker ids registered by an earlier run for the local keys.
PriorId(k) == IF k.t = "epic" THEN TrackerBase ELSE TrackerBase + k.s

RECURSIVE RegisterAll(_, _)
RegisterAll(h, keys) ==
    IF keys = <<>> THEN h
    ELSE RegisterAll(RegisterInHierarchy(h, Head(keys), PriorId(Head(keys))), Tail(keys))

PriorHierarchy == RegisterAll(EmptyHierarchy, SortKeys(LocalKeys))

PriorRegistry ==
    [EmptyRegistry EXCEPT !.stories =
        [k \in {x \in LocalKeys : x.t = "story"} |-> PriorId(k)]]

Modes == {"all", "create_only", "update_only"}

\* The state of a project before its first sync run: epic file named
\* epic-1-context.md (ctx) or epic-1.md, a saved baseline index or the empty
\* one of _initialize_files, tracker ids registered earlier (prereg) or none.
InitSyncOf(ctx, baseline, prereg, mode, dry, mod) ==
    /\ files = LocalFiles(ctx, mod)
    /\ content_index = IF baseline THEN BaselineIndex ELSE EmptyMap
    /\ sync_state = InitialSyncState
    /\ registry = IF prereg THEN PriorRegistry ELSE EmptyRegistry
    /\ hier = IF prereg THEN PriorHierarchy ELSE EmptyHierarchy
    /\ nextId = IF prereg THEN TrackerBase + NumStories + 1 ELSE TrackerBase
    /\ cfg = [mode |-> mode, dry_run |-> dry]
    /\ backup = SnapshotFiles
    /\ created = {}
    /\ ops = <<>>
    /\ pos = 1
    /\ pc = "idle"
    /\ success = 0
    /\ failed = 0
    /\ applied = <<>>
    /\ startFiles = StateFiles
    /\ firstApplyOk = FALSE
    /\ run = 0

InitSync ==
    \E ctx \in BOOLEAN, baseline \in BOOLEAN, prereg \in BOOLEAN,
       mode \in Modes, dry \in BOOLEAN, mod \in SUBSET LocalKeys :
        /\ (~baseline => mod = {})
        /\ InitSyncOf(ctx, baseline, prereg, mode, dry, mod)

\* The project at rest, for the specifications of the other machines.
\* No sync report yet, and no conflict recorded by the engine.
IdleDetect == report = [written |-> FALSE, operations |-> <<>>] /\ detected = {}

IdleSync == InitSyncOf(FALSE, FALSE, FALSE, "all", TRUE, {})

\* ------------------------------------------------------------------- sync
\* The steps of one project's pipeline leave the other machines alone.
SyncFrame == UNCHANGED <<lockVars, portVars, pureVars, resolverVars, numberingVars,
                wrapperVars,
                logVars,
                rollbackVars>>

\* SyncEngine.sync: load the previous index from content_index.json,
\* discover, build the operations, write the report.
Plan ==
    /\ SyncFrame
    /\ pc \in {"idle", "applied"}
    /\ run < MaxRuns
    /\ ops' = BuildOperations(content_index, CurrentIndex)
    /\ report' = [written |-> TRUE, operations |-> ops']
    /\ pc' = "planned"
    /\ run' = run + 1
    /\ firstApplyOk' = (pc = "applied" /\ ~cfg.dry_run /\ Len(ops) > 0
                         /\ success = Len(ops))
    /\ UNCHANGED <<files, content_index, sync_state, registry, hier, backup,
                   nextId, created, cfg, pos, success, failed, applied, startFiles,
                   detected>>

\* SyncEngine.apply, up to the loop: dry-run returns at once, otherwise the
\* three state files are copied to the pre-sync backup.
\* The keys a story entry of the index carries, as _build_current_index
\* writes them.
StoryMetaFields == {"file", "hash", "epic", "story", "title", "status"}

\* meta.get("last_modified") or "": whether a story entry of the index gives
\* a time of its last local change.
HasBmadUpdated == "last_modified" \in StoryMetaFields

\* The stories detect_and_record_conflicts hands to the detector: none
\* without a last_sync; otherwise those with a tracker id whose four fields
\* (both states, both times) are all present.
DetectCandidates ==
    IF sync_state.last_sync = 0 THEN {}
    ELSE { KeyOfFile(f) : f \in { g \in files :
                /\ g.t = "story"
                /\ GetIssueId(hier, registry, KeyOfFile(g)) # 0
                /\ HasBmadUpdated } }

\* SyncEngine.detect_and_record_conflicts, as sync_project calls it between
\* sync and apply: the conflicts the detector finds (which depends on the
\* tracker's records) are appended to the pending queue.
DetectAndRecordConflicts ==
    /\ SyncFrame
    /\ pc = "planned"
    /\ \E conflicts \in SUBSET DetectCandidates : detected' = detected \cup conflicts
    /\ pc' = "detected"
    /\ UNCHANGED <<files, content_index, sync_state, registry, hier, backup, nextId,
                   created, cfg, ops, pos, success, failed, applied, startFiles,
                   firstApplyOk, run, report>>

\* An apply that does what it does without dry_run whatever the setting.
NeverSkips(config) == FALSE

\* SyncEngine.apply: if self.dry_run, return without applying.
DryRunSkips(config) == config.dry_run

ApplyBegin ==
    /\ SyncFrame
    /\ UNCHANGED detectVars
    /\ pc \in {"planned", "detected"}
    /\ IF DryRunSkips(cfg)
       THEN /\ pc' = "applied"
            /\ UNCHANGED <<backup, pos, created, applied, startFiles>>
       ELSE /\ pc' = "applying"
            /\ backup' = SnapshotFiles
            /\ startFiles' = StateFiles
            /\ pos' = 1
            /\ created' = {}
            /\ applied' = <<>>
    /\ success' = 0
    /\ failed' = 0
    /\ UNCHANGED <<files, content_index, sync_state, registry, hier, nextId,
                   cfg, ops, firstApplyOk, run>>

\* SyncEngine._renumber_after_create for an epic: only epic-<n>-context.md is
\* renamed; the "# Epic <n>" header inside the file stays.
HasEpicContextFile(fs, key) ==
    \E f \in fs : f.t = "epic" /\ f.e = key.e /\ f.ctx

RenameEpicFile(fs, key, id) ==
    {IF f.t = "epic" /\ f.e = key.e /\ f.ctx
        THEN [f EXCEPT !.e = id, !.marker = id] ELSE f : f \in fs}

\* SyncEngine._renumber_after_create for a story: the epic part of the new
\* key is the tracker number of epic-<old epic> when that epic is registered,
\* the old epic number otherwise.
NewStoryKey(h, r, key, id) ==
    LET epic_linear_id == GetIssueId(h, r, EpicKey(key.e))
        epic_numeric == IF epic_linear_id # 0 THEN epic_linear_id ELSE key.e
    IN  StoryKey(epic_numeric, id, key.slug)

HasStoryFile(fs, key) ==
    \E f \in fs : f.t = "story" /\ KeyOfFile(f) = key

RenameStoryFile(fs, key, new, id) ==
    {IF f.t = "story" /\ KeyOfFile(f) = key
        THEN [f EXCEPT !.e = new.e, !.s = new.s, !.marker = id] ELSE f : f \in fs}

\* What _renumber_after_create leaves behind, given the hierarchy h and the
\* registry r as they are after register_issue(op.content_key, id).
Renumbered(fs, h, r, key, id) ==
    IF key.t = "epic"
    THEN LET new == EpicKey(id)
         IN  IF HasEpicContextFile(fs, key)
             THEN [files |-> RenameEpicFile(fs, key, id),
                   hier |-> RecordMappingHier(RegisterInHierarchy(h, new, id), key, new, id),
                   registry |-> RecordMappingRegistry(RegisterInRegistry(r, new, id), key, new, id)]
             ELSE [files |-> fs, hier |-> h, registry |-> r]
    ELSE LET new == NewStoryKey(h, r, key, id)
         IN  IF HasStoryFile(fs, key)
             THEN [files |-> RenameStoryFile(fs, key, new, id),
                   hier |-> RecordMappingHier(RegisterInHierarchy(h, new, id), key, new, id),
                   registry |-> RecordMappingRegistry(RegisterInRegistry(r, new, id), key, new, id)]
             ELSE [files |-> fs, hier |-> h, registry |-> r]

\* One iteration of apply's loop on a create.  The tracker call (or the
\* validation of the create payload) may fail before anything exists; once
\* the issue exists it is registered under the old key, and the validation
\* of the post-create state update may still raise.
ApplyCreate ==
    /\ SyncFrame
    /\ UNCHANGED detectVars
    /\ pc = "applying"
    /\ pos <= Len(ops)
    /\ ops[pos].action = "create"
    /\ \E outcome \in {"ok", "create_error", "state_invalid"} :
        LET op == ops[pos]
            id == nextId
            h1 == RegisterInHierarchy(hier, op.content_key, id)
            r1 == RegisterInRegistry(registry, op.content_key, id)
            rn == Renumbered(files, h1, r1, op.content_key, id)
        IN  CASE outcome = "create_error" ->
                    /\ failed' = failed + 1
                    /\ UNCHANGED <<files, hier, registry, nextId, created, success>>
              [] outcome = "state_invalid" ->
                    /\ failed' = failed + 1
                    /\ hier' = h1
                    /\ registry' = r1
                    /\ nextId' = nextId + 1
                    /\ created' = created \cup {[key |-> op.content_key, id |-> id]}
                    /\ UNCHANGED <<files, success>>
              [] outcome = "ok" ->
                    /\ success' = success + 1
                    /\ files' = rn.files
                    /\ hier' = rn.hier
                    /\ registry' = rn.registry
                    /\ nextId' = nextId + 1
                    /\ created' = created \cup {[key |-> op.content_key, id |-> id]}
                    /\ UNCHANGED failed
    /\ pos' = pos + 1
    /\ applied' = Append(applied, ops[pos])
    /\ UNCHANGED <<content_index, sync_state, backup, cfg, ops, pc, startFiles,
                   firstApplyOk, run>>

\* One iteration of apply's loop on an update that carries an issue id.
ApplyUpdate ==
    /\ SyncFrame
    /\ UNCHANGED detectVars
    /\ pc = "applying"
    /\ pos <= Len(ops)
    /\ ops[pos].action = "update"
    /\ ops[pos].issue_id # 0
    /\ \E ok \in BOOLEAN :
        IF ok
        THEN /\ hier' = RegisterInHierarchy(hier, ops[pos].content_key, ops[pos].issue_id)
             /\ registry' = RegisterInRegistry(registry, ops[pos].content_key, ops[pos].issue_id)
             /\ success' = success + 1
             /\ UNCHANGED failed
        ELSE /\ failed' = failed + 1
             /\ UNCHANGED <<hier, registry, success>>
    /\ pos' = pos + 1
    /\ applied' = Append(applied, ops[pos])
    /\ UNCHANGED <<files, content_index, sync_state, backup, nextId, created, cfg,
                   ops, pc, startFiles, firstApplyOk, run>>

\* One iteration on an update without issue id: a message, nothing else.
ApplySkip ==
    /\ SyncFrame
    /\ UNCHANGED detectVars
    /\ pc = "applying"
    /\ pos <= Len(ops)
    /\ ops[pos].action = "update"
    /\ ops[pos].issue_id = 0
    /\ pos' = pos + 1
    /\ applied' = Append(applied, ops[pos])
    /\ UNCHANGED <<files, content_index, sync_state, registry, hier, backup, nextId,
                   created, cfg, ops, pc, success, failed, startFiles, firstApplyOk, run>>

\* The end of apply: on any failure the three backed-up files are copied
\* back, and apply returns.
ApplyEnd ==
    /\ SyncFrame
    /\ UNCHANGED detectVars
    /\ pc = "applying"
    /\ pos > Len(ops)
    /\ IF failed > 0
       THEN /\ content_index' = backup.content_index
            /\ sync_state' = backup.sync_state
            /\ registry' = backup.number_registry
       ELSE UNCHANGED <<content_index, sync_state, registry>>
    /\ pc' = "applied"
    /\ UNCHANGED <<files, hier, backup, nextId, created, cfg, ops, pos, success,
                   failed, applied, startFiles, firstApplyOk, run>>

NextSync ==
    \/ Plan \/ DetectAndRecordConflicts
    \/ ApplyBegin \/ ApplyCreate \/ ApplyUpdate \/ ApplySkip \/ ApplyEnd

\* ------------------------------------------------------------- _file_lock
Acquirers == 1..NumAcquirers

Inodes == 1..MaxInodes

InitLock ==
    /\ lk_path = 0
    /\ lk_inodes = 0
    /\ lk_owner = [i \in Inodes |-> 0]
    /\ lk_pc = [p \in Acquirers |-> "idle"]
    /\ lk_fd = [p \in Acquirers |-> 0]
    /\ lk_elapsed = [p \in Acquirers |-> 0]
    /\ lk_timeouts = 0

LockFrame == UNCHANGED <<syncVars, portVars, pureVars, resolverVars, numberingVars,
                wrapperVars,
                logVars,
                rollbackVars,
                detectVars>>

\* fcntl.flock(fd, LOCK_EX | LOCK_NB): succeeds when no other open file
\* description holds the lock of the inode the fd is open on.
FlockSucceeds(p) == lk_owner[lk_fd[p]] = 0

\* lock_fd = open(lock_file, 'w'): opens the inode the path names, creating
\* a new one when the path does not exist.
LockOpen(p) ==
    /\ LockFrame
    /\ lk_pc[p] = "idle"
    /\ lk_path # 0 \/ lk_inodes < MaxInodes
    /\ IF lk_path = 0
       THEN /\ lk_inodes' = lk_inodes + 1
            /\ lk_path' = lk_inodes + 1
       ELSE UNCHANGED <<lk_inodes, lk_path>>
    /\ lk_fd' = [lk_fd EXCEPT ![p] = lk_path']
    /\ lk_pc' = [lk_pc EXCEPT ![p] = "opened"]
    /\ UNCHANGED <<lk_owner, lk_elapsed, lk_timeouts>>

\* The first flock attempt: on success the block is entered (yield), on
\* BlockingIOError the retry loop starts with elapsed = 0.
LockTry(p) ==
    /\ LockFrame
    /\ lk_pc[p] = "opened"
    /\ IF FlockSucceeds(p)
       THEN /\ lk_owner' = [lk_owner EXCEPT ![lk_fd[p]] = p]
            /\ lk_pc' = [lk_pc EXCEPT ![p] = "inside"]
       ELSE /\ lk_pc' = [lk_pc EXCEPT ![p] = "waiting"]
            /\ UNCHANGED lk_owner
    /\ lk_elapsed' = [lk_elapsed EXCEPT ![p] = 0]
    /\ UNCHANGED <<lk_path, lk_inodes, lk_fd, lk_timeouts>>

\* One iteration of the retry loop: sleep, count, try again.
LockRetry(p) ==
    /\ LockFrame
    /\ lk_pc[p] = "waiting"
    /\ lk_elapsed[p] < LockRetries
    /\ lk_elapsed' = [lk_elapsed EXCEPT ![p] = @ + 1]
    /\ IF FlockSucceeds(p)
       THEN /\ lk_owner' = [lk_owner EXCEPT ![lk_fd[p]] = p]
            /\ lk_pc' = [lk_pc EXCEPT ![p] = "inside"]
       ELSE UNCHANGED <<lk_owner, lk_pc>>
    /\ UNCHANGED <<lk_path, lk_inodes, lk_fd, lk_timeouts>>

\* The loop's else branch: StateError is raised, the block is not entered
\* and control passes to the finally clause.
LockTimeout(p) ==
    /\ LockFrame
    /\ lk_pc[p] = "waiting"
    /\ lk_elapsed[p] >= LockRetries
    /\ lk_pc' = [lk_pc EXCEPT ![p] = "raised"]
    /\ lk_timeouts' = lk_timeouts + 1
    /\ UNCHANGED <<lk_path, lk_inodes, lk_owner, lk_fd, lk_elapsed>>

\* finally, first half: flock(LOCK_UN) and close of the acquirer's own fd,
\* run when the block is left and also after a timeout.
LockUnlock(p) ==
    /\ LockFrame
    /\ lk_pc[p] \in {"inside", "raised"}
    /\ lk_owner' = IF lk_owner[lk_fd[p]] = p
                   THEN [lk_owner EXCEPT ![lk_fd[p]] = 0] ELSE lk_owner
    /\ lk_pc' = [lk_pc EXCEPT ![p] = "unlinking"]
    /\ UNCHANGED <<lk_path, lk_inodes, lk_fd, lk_elapsed, lk_timeouts>>

\* finally, second half: lock_file.unlink(missing_ok=True) removes the path,
\* whichever inode it names.
LockUnlink(p) ==
    /\ LockFrame
    /\ lk_pc[p] = "unlinking"
    /\ lk_path' = 0
    /\ lk_fd' = [lk_fd EXCEPT ![p] = 0]
    /\ lk_pc' = [lk_pc EXCEPT ![p] = "idle"]
    /\ UNCHANGED <<lk_inodes, lk_owner, lk_elapsed, lk_timeouts>>

NextLock ==
    \E p \in Acquirers :
        \/ LockOpen(p)
        \/ LockTry(p)
        \/ LockRetry(p)
        \/ LockTimeout(p)
        \/ LockUnlock(p)
        \/ LockUnlink(p)

\* ------------------------------------------------------ portfolio executor
Projects == 1..NumProjects

PortFrame == UNCHANGED <<syncVars, lockVars, pureVars, resolverVars, numberingVars,
                wrapperVars,
                logVars,
                rollbackVars,
                detectVars>>

\* ProjectSyncResult: the counters default to 0, and sync_project starts
\* from success = False.
NoResult ==
    [project_key |-> 0, success |-> FALSE, operations_planned |-> 0,
     operations_applied |-> 0, operations_failed |-> 0, conflicts |-> 0]

NewResult(p) == [NoResult EXCEPT !.project_key = p]

\* The task of a project that is not selected.  mapping_read and
\* conflicts_written name the project whose .sync/config/state_mapping.yaml
\* the pipeline has read and whose .sync/conflicts/pending.json it has
\* written (0: none).
NoTask ==
    [pc |-> "none", original_dir |-> 0, result |-> NoResult,
     mapping_read |-> 0, conflicts_written |-> 0]

\* executor.submit(self._sync_project_with_progress, key, ...)
Submitted(p) == [NoTask EXCEPT !.pc = "queued", !.result = NewResult(p)]

\* The task is running on a pool thread.
Running(t) ==
    t.pc \in {"getcwd", "chdir", "init", "sync", "detect", "apply", "restore", "complete"}

\* The future of the task is done.
Done(t) == t.pc \in {"result", "exception"}

RECURSIVE Ascending(_)
Ascending(S) ==
    IF S = {} THEN <<>>
    ELSE LET m == CHOOSE x \in S : \A y \in S : x <= y
         IN  <<m>> \o Ascending(S \ {m})

RECURSIVE SumSeq(_)
SumSeq(s) == IF s = <<>> THEN 0 ELSE Head(s) + SumSeq(Tail(s))

NoBulkResult ==
    [returned |-> FALSE, total_projects |-> 0, successful_projects |-> 0,
     failed_projects |-> 0, total_operations |-> 0, total_applied |-> 0,
     total_failed |-> 0, total_conflicts |-> 0]

\* BulkSyncEngine(max_workers, dry_run) and the call of sync_all or
\* sync_selective that has submitted one task per selected project.
InitPortfolioOf(sel, mw, dry, cb) ==
    /\ bulk = [selected |-> sel, max_workers |-> mw, dry_run |-> dry, callback |-> cb,
               interrupted |-> FALSE]
    /\ work_queue = Ascending(sel)
    /\ tasks = [p \in Projects |-> IF p \in sel THEN Submitted(p) ELSE NoTask]
    /\ cwd = 0
    /\ state_mapper = 0
    /\ collected = {}
    /\ project_results = <<>>
    /\ bulk_result = NoBulkResult

InitPortfolio ==
    \E sel \in SUBSET Projects, mw \in 1..MaxWorkers, dry \in BOOLEAN, cb \in BOOLEAN :
        InitPortfolioOf(sel, mw, dry, cb)

\* No portfolio call, for the specifications of the other machines.
IdlePortfolio == InitPortfolioOf({}, 1, TRUE, FALSE)

\* The except branch of sync_project: the result says failure, the working
\* directory is left as it is.
Failing(t) == [t EXCEPT !.pc = "complete", !.result.success = FALSE]

\* A free pool thread takes the next task: _sync_project_with_progress
\* starts the project and calls the progress callback, which may raise;
\* then sync_project builds its result.
PfStart(p) ==
    /\ PortFrame
    /\ work_queue # <<>>
    /\ p = Head(work_queue)
    /\ Cardinality({q \in Projects : Running(tasks[q])}) < bulk.max_workers
    /\ work_queue' = Tail(work_queue)
    /\ \E raises \in (IF bulk.callback THEN BOOLEAN ELSE {FALSE}) :
        tasks' = [tasks EXCEPT ![p].pc = IF raises THEN "exception" ELSE "getcwd"]
    /\ UNCHANGED <<bulk, cwd, state_mapper, collected, project_results, bulk_result>>

\* original_dir = Path.cwd()
PfGetCwd(p) ==
    /\ PortFrame
    /\ tasks[p].pc = "getcwd"
    /\ tasks' = [tasks EXCEPT ![p].pc = "chdir", ![p].original_dir = cwd]
    /\ UNCHANGED <<bulk, work_queue, cwd, state_mapper, collected, project_results,
                   bulk_result>>

\* os.chdir(project_path): changes the directory of the whole process, or
\* raises when the path is not a directory.
PfChdir(p) ==
    /\ PortFrame
    /\ tasks[p].pc = "chdir"
    /\ \E ok \in BOOLEAN :
        IF ok
        THEN /\ cwd' = p
             /\ tasks' = [tasks EXCEPT ![p].pc = "init"]
        ELSE /\ tasks' = [tasks EXCEPT ![p] = Failing(@)]
             /\ UNCHANGED cwd
    /\ UNCHANGED <<bulk, work_queue, state_mapper, collected, project_results,
                   bulk_result>>

\* get_state_mapper(): the module-level _state_mapper is created by the
\* first caller, from the .sync directory found from the working directory
\* at that moment, and handed to every later caller.
GetStateMapper(m, dir) == IF m = 0 THEN dir ELSE m

\* SyncEngine(dry_run): load_config() looks for .sync from the working
\* directory and raises when there is none (the launch directory is not a
\* project) or when the configuration is invalid; then the engine takes
\* the global state mapper.
PfEngineInit(p) ==
    /\ PortFrame
    /\ tasks[p].pc = "init"
    /\ \E ok \in BOOLEAN :
        IF ok /\ cwd # 0
        THEN /\ state_mapper' = GetStateMapper(state_mapper, cwd)
             /\ tasks' = [tasks EXCEPT ![p].pc = "sync"]
        ELSE /\ tasks' = [tasks EXCEPT ![p] = Failing(@)]
             /\ UNCHANGED state_mapper
    /\ UNCHANGED <<bulk, work_queue, cwd, collected, project_results, bulk_result>>

\* plan = engine.sync(); result.operations_planned = len(operations)
PfSync(p) ==
    /\ PortFrame
    /\ tasks[p].pc = "sync"
    /\ \/ \E n \in 0..MaxOps :
            tasks' = [tasks EXCEPT ![p].pc = "detect",
                                   ![p].result.operations_planned = n]
       \/ tasks' = [tasks EXCEPT ![p] = Failing(@)]
    /\ UNCHANGED <<bulk, work_queue, cwd, state_mapper, collected, project_results,
                   bulk_result>>

\* engine.detect_and_record_conflicts(discover_all()): every conflict found
\* is saved by the engine's mapper into the pending queue of the .sync the
\* mapper is bound to.  The index entries carry no time of the last local
\* change, so no story reaches the detector and none is found.
PfDetect(p) ==
    /\ PortFrame
    /\ tasks[p].pc = "detect"
    /\ \/ \E c \in (IF HasBmadUpdated THEN 0..1 ELSE {0}) :
            tasks' = [tasks EXCEPT
                ![p].pc = "apply",
                ![p].result.conflicts = c,
                ![p].conflicts_written = IF c > 0 THEN state_mapper ELSE 0]
       \/ tasks' = [tasks EXCEPT ![p] = Failing(@)]
    /\ UNCHANGED <<bulk, work_queue, cwd, state_mapper, collected, project_results,
                   bulk_result>>

\* engine.apply(operations) unless dry-run or nothing planned: apply
\* validates states against the mapper's configuration and returns the
\* counters (an operation succeeds, fails, or is skipped and counted in
\* neither); then result.success = True whatever the counters are.
PfApply(p) ==
    /\ PortFrame
    /\ tasks[p].pc = "apply"
    /\ LET n == tasks[p].result.operations_planned IN
        IF ~bulk.dry_run /\ n > 0
        THEN \E f \in 0..n : \E a \in 0..(n - f) :
                tasks' = [tasks EXCEPT
                    ![p].pc = "restore",
                    ![p].mapping_read = state_mapper,
                    ![p].result.operations_applied = a,
                    ![p].result.operations_failed = f,
                    ![p].result.success = TRUE]
        ELSE tasks' = [tasks EXCEPT
                    ![p].pc = "restore",
                    ![p].result.operations_applied = 0,
                    ![p].result.operations_failed = 0,
                    ![p].result.success = TRUE]
    /\ UNCHANGED <<bulk, work_queue, cwd, state_mapper, collected, project_results,
                   bulk_result>>

\* os.chdir(original_dir), on the path without exception only.
PfRestore(p) ==
    /\ PortFrame
    /\ tasks[p].pc = "restore"
    /\ cwd' = tasks[p].original_dir
    /\ tasks' = [tasks EXCEPT ![p].pc = "complete"]
    /\ UNCHANGED <<bulk, work_queue, state_mapper, collected, project_results,
                   bulk_result>>

\* sync_project returns; progress.complete_project and the progress
\* callback, which may raise; the future gets the result or the exception.
PfComplete(p) ==
    /\ PortFrame
    /\ tasks[p].pc = "complete"
    /\ \E raises \in (IF bulk.callback THEN BOOLEAN ELSE {FALSE}) :
        tasks' = [tasks EXCEPT ![p] =
                    [NoTask EXCEPT !.pc = IF raises THEN "exception" ELSE "result",
                                   !.result = IF raises THEN NewResult(p)
                                              ELSE tasks[p].result]]
    /\ UNCHANGED <<bulk, work_queue, cwd, state_mapper, collected, project_results,
                   bulk_result>>

\* A collecting loop that drops the project when future.result() raises.
DropRaised(p, t) ==
    IF t.pc = "result" THEN <<t.result>> ELSE <<>>

\* What the collecting loop appends for a finished future: its result, or
\* a failed result made up for the project when future.result() raises.
CollectedResult(p, t) ==
    IF t.pc = "result" THEN <<t.result>> ELSE <<NewResult(p)>>

\* for future in as_completed(future_to_project): ...
PfCollect(p) ==
    /\ PortFrame
    /\ ~bulk.interrupted
    /\ p \in bulk.selected \ collected
    /\ Done(tasks[p])
    /\ collected' = collected \cup {p}
    /\ project_results' = project_results \o CollectedResult(p, tasks[p])
    /\ UNCHANGED <<bulk, work_queue, tasks, cwd, state_mapper, bulk_result>>

CountSuccess(rs, b) == Cardinality({i \in 1..Len(rs) : rs[i].success = b})

\* BulkSyncResult(...) computed from the list of results.
Aggregate(sel, rs) ==
    [returned |-> TRUE,
     total_projects |-> Cardinality(sel),
     successful_projects |-> CountSuccess(rs, TRUE),
     failed_projects |-> CountSuccess(rs, FALSE),
     total_operations |-> SumSeq([i \in 1..Len(rs) |-> rs[i].operations_planned]),
     total_applied |-> SumSeq([i \in 1..Len(rs) |-> rs[i].operations_applied]),
     total_failed |-> SumSeq([i \in 1..Len(rs) |-> rs[i].operations_failed]),
     total_conflicts |-> SumSeq([i \in 1..Len(rs) |-> rs[i].conflicts])]

\* Every future has been yielded: the executor shuts down and the
\* aggregate is returned.
\* The one cancellation signal sync_all can be given: KeyboardInterrupt in
\* the calling thread, which waits in as_completed.  The exception leaves the
\* loop and the with block, whose exit is executor.shutdown(wait=True): the
\* futures still queued are not cancelled, and the pool's threads go on taking
\* them until the queue is empty.
PfInterrupt ==
    /\ PortFrame
    /\ ~bulk.interrupted
    /\ ~bulk_result.returned
    /\ bulk.selected # {}
    /\ bulk' = [bulk EXCEPT !.interrupted = TRUE]
    /\ UNCHANGED <<work_queue, tasks, cwd, state_mapper, collected, project_results,
                   bulk_result>>

PfAggregate ==
    /\ PortFrame
    /\ ~bulk.interrupted
    /\ ~bulk_result.returned
    /\ bulk.selected # {}
    /\ collected = bulk.selected
    /\ bulk_result' = Aggregate(bulk.selected, project_results)
    /\ UNCHANGED <<bulk, work_queue, tasks, cwd, state_mapper, collected,
                   project_results>>

\* No project selected: an all-zero aggregate is returned at once.
PfNoProjects ==
    /\ PortFrame
    /\ ~bulk_result.returned
    /\ bulk.selected = {}
    /\ bulk_result' = [NoBulkResult EXCEPT !.returned = TRUE]
    /\ UNCHANGED <<bulk, work_queue, tasks, cwd, state_mapper, collected,
                   project_results>>

NextPortfolio ==
    \/ \E p \in Projects :
        \/ PfStart(p)
        \/ PfGetCwd(p)
        \/ PfChdir(p)
        \/ PfEngineInit(p)
        \/ PfSync(p)
        \/ PfDetect(p)
        \/ PfApply(p)
        \/ PfRestore(p)
        \/ PfComplete(p)
        \/ PfCollect(p)
    \/ PfInterrupt
    \/ PfAggregate
    \/ PfNoProjects

\* ------------------------------------------------- state mapping (pure)
\* None of the Python code.
None == "None"

\* An ISO-8601 timestamp: the instant it names when read as UTC, and
\* whether the text carries a zone ("Z" or an offset).  datetime.now()
\* .isoformat(), which writes last_sync, carries none; the tracker's
\* updatedAt ends in "Z".
Timestamps == [t : 0..MaxTime, zone : BOOLEAN]

\* None where a timestamp is expected (last_sync before the first sync).
NoTimestamp == [none |-> TRUE]

BmadStates == {"backlog", "drafted", "ready-for-dev", "in-progress", "review", "done"}

\* Tracker states; "Canceled" stands for a state the mapping does not know
\* and "" for a missing one.
LinearStates == {"Backlog", "Todo", "In Progress", "In Review", "Done", "Canceled", ""}

\* story_states.linear_to_bmad of state_mapping.yaml.
LinearToBmadMap ==
    [Backlog |-> "backlog", Todo |-> "drafted"] @@
    ("In Progress" :> "in-progress") @@ ("In Review" :> "review") @@
    ("Done" :> "done")

\* StateMapper.linear_to_bmad(linear_state) for a story without context
\* hints: the todo_to_bmad_logic falls to its default rule, "drafted".
LinearToBmad(strict, linear_state) ==
    IF linear_state = "" THEN "backlog"
    ELSE IF linear_state \notin DOMAIN LinearToBmadMap
         THEN IF strict THEN "StateMappingError" ELSE "backlog"
    ELSE IF linear_state = "Todo" THEN "drafted"
    ELSE LinearToBmadMap[linear_state]

\* a > b on two datetimes parsed by fromisoformat: an aware and a naive
\* datetime cannot be compared.
DatetimeGreater(a, b) ==
    IF a.zone # b.zone THEN "TypeError" ELSE IF a.t > b.t THEN "True" ELSE "False"

\* StateMapper.detect_conflict: "conflict", "none", or the exception raised.
DetectConflict(strict, bmad_state, bmad_updated, linear_state, linear_updated, last_sync) ==
    LET linear_as_bmad == LinearToBmad(strict, linear_state)
    IN  IF linear_as_bmad = "StateMappingError" THEN "StateMappingError"
        ELSE IF bmad_state = linear_as_bmad THEN "none"
        ELSE IF last_sync = NoTimestamp THEN "none"
        ELSE LET b == DatetimeGreater(bmad_updated, last_sync)
                 l == DatetimeGreater(linear_updated, last_sync)
             IN  IF b = "TypeError" THEN "TypeError"
                 ELSE IF b = "False" THEN "none"
                 ELSE IF l = "TypeError" THEN "TypeError"
                 ELSE IF l = "True" THEN "conflict" ELSE "none"

DetectConflictCalls ==
    [fn : {"detect_conflict"}, strict : BOOLEAN, bmad_state : BmadStates,
     bmad_updated : Timestamps, linear_state : LinearStates,
     linear_updated : Timestamps, last_sync : Timestamps \cup {NoTimestamp}]

PureFrame == UNCHANGED <<syncVars, lockVars, portVars, resolverVars, numberingVars,
                wrapperVars,
                logVars,
                rollbackVars,
                detectVars>>

\* The call has not returned yet / has returned or raised v.
NotReturned == [done |-> FALSE, value |-> None]

Returns(v) == [done |-> TRUE, value |-> v]

NoCall == [fn |-> "none"]

IdlePure == call = NoCall /\ ret = NotReturned

CallDetectConflict ==
    /\ PureFrame
    /\ call.fn = "detect_conflict"
    /\ ~ret.done
    /\ ret' = Returns(DetectConflict(call.strict, call.bmad_state, call.bmad_updated,
                                     call.linear_state, call.linear_updated,
                                     call.last_sync))
    /\ UNCHANGED call

\* ------------------------------------------------------ conflict resolver
ResolverFrame == UNCHANGED <<syncVars, lockVars, portVars, pureVars, numberingVars,
                wrapperVars,
                logVars,
                rollbackVars,
                detectVars>>

ConflictKeys == {"1-1-setup", "1-2-login"}

\* f"c-{content_key}-{now:%Y%m%d%H%M%S}": the key and the second.
ConflictId(content_key, now) == <<content_key, now>>

\* A StateConflict as detect_conflict builds it.
StateConflict(content_key, bmad_state, linear_state, now) ==
    [conflict_id |-> ConflictId(content_key, now), content_key |-> content_key,
     bmad_state |-> bmad_state, linear_state |-> linear_state]

\* The files as StateMapper and ConflictResolver initialise them.
InitResolver ==
    /\ pending = <<>>
    /\ resolution_history = <<>>
    /\ state_history = <<>>
    /\ metric_entries = 0
    /\ clock = 0

\* A second passes.
Tick ==
    /\ ResolverFrame
    /\ clock < MaxTime
    /\ clock' = clock + 1
    /\ UNCHANGED <<pending, resolution_history, state_history, metric_entries>>

\* StateMapper.save_conflict of a conflict just detected: appended to the
\* queue as it is.
SaveConflict(content_key, bmad_state, linear_state) ==
    /\ ResolverFrame
    /\ Len(pending) < MaxPending
    /\ bmad_state # LinearToBmad(FALSE, linear_state)
    /\ pending' = Append(pending, StateConflict(content_key, bmad_state, linear_state, clock))
    /\ UNCHANGED <<resolution_history, state_history, metric_entries, clock>>

\* StateMapper.resolve_conflict: keeps the conflicts with another id.
RECURSIVE ResolveConflict(_, _)
ResolveConflict(conflicts, conflict_id) ==
    IF conflicts = <<>> THEN <<>>
    ELSE (IF Head(conflicts).conflict_id # conflict_id THEN <<Head(conflicts)>> ELSE <<>>)
         \o ResolveConflict(Tail(conflicts), conflict_id)

\* resolve_keep_bmad / resolve_keep_linear: the state the resolution keeps.
ResolvedState(conflict, strategy) ==
    IF strategy = "keep_bmad" THEN conflict.bmad_state
    ELSE LinearToBmad(FALSE, conflict.linear_state)

\* ConflictResolver.apply_resolution(result, conflict) for a pending
\* conflict and the result of one of the resolve_* methods: log the state
\* change, mark the conflict resolved, save the resolution history, record
\* the metrics.
ApplyResolution(i, strategy) ==
    /\ ResolverFrame
    /\ i \in 1..Len(pending)
    /\ Len(resolution_history) < MaxResolutions
    /\ LET conflict == pending[i] IN
        /\ state_history' = Append(state_history,
                [content_key |-> conflict.content_key, from_state |-> conflict.bmad_state,
                 to_state |-> ResolvedState(conflict, strategy)])
        /\ pending' = ResolveConflict(pending, conflict.conflict_id)
        /\ resolution_history' = Append(resolution_history,
                [conflict_id |-> conflict.conflict_id, content_key |-> conflict.content_key,
                 strategy |-> strategy, after_state |-> ResolvedState(conflict, strategy)])
    /\ metric_entries' = metric_entries + 1
    /\ UNCHANGED clock

NextResolver ==
    \/ Tick
    \/ \E k \in ConflictKeys, b \in {"backlog", "review", "in-progress"} : SaveConflict(k, b, "Done")
    \/ \E i \in 1..MaxPending, st \in {"keep_bmad", "keep_linear"} : ApplyResolution(i, st)

\* ----------------------------------------------------- auto_resolve (pure)
\* Rules of the custom rules file that are followed per call.
MaxRules == 2

\* Confidences are written in hundredths.
RuleConditions == {{}, {<<"linear_state", "Done">>}}

ResolutionRules ==
    [priority : {70, 90}, conditions : RuleConditions, action : {"keep-bmad", "keep-linear"},
     confidence : {80, 95}, enabled : BOOLEAN]

\* The rules of a file, each with its place in the file as rule_id.
RuleFiles == UNION {[1..n -> ResolutionRules] : n \in 1..MaxRules}

WithIds(file) == [i \in 1..Len(file) |-> [rule_id |-> i, rule |-> file[i]]]

\* list.sort(key=priority, reverse=True): stable, highest priority first.
RECURSIVE InsertByPriority(_, _)
InsertByPriority(sorted, r) ==
    IF sorted = <<>> THEN <<r>>
    ELSE IF Head(sorted).rule.priority >= r.rule.priority
         THEN <<Head(sorted)>> \o InsertByPriority(Tail(sorted), r)
         ELSE <<r>> \o sorted

RECURSIVE SortByPriority(_)
SortByPriority(rules) ==
    IF rules = <<>> THEN <<>>
    ELSE InsertByPriority(SortByPriority(SubSeq(rules, 1, Len(rules) - 1)), rules[Len(rules)])

\* CustomRulesEngine._load_rules: the rules of the file, sorted.
LoadRules(file) == SortByPriority(WithIds(file))

\* CustomRulesEngine.evaluate_rule for equality conditions.
EvaluateRule(rule, conflict_data) ==
    /\ rule.enabled
    /\ \A c \in rule.conditions : conflict_data[c[1]] = c[2]

\* CustomRulesEngine.find_matching_rule: the first rule that matches, or
\* None, written NoRule.
NoRule == [rule_id |-> 0]

RECURSIVE FindMatchingRule(_, _)
FindMatchingRule(rules, conflict_data) ==
    IF rules = <<>> THEN NoRule
    ELSE IF EvaluateRule(Head(rules).rule, conflict_data) THEN Head(rules)
         ELSE FindMatchingRule(Tail(rules), conflict_data)

\* A suggestion of the ML resolver or of the pattern rules: none, or an
\* action with a confidence.
NoSuggestion == [given |-> FALSE]
Suggestions == {NoSuggestion} \cup [given : {TRUE}, confidence : {80, 95}]

\* What auto_resolve returns: None, or the result of the stage that decided.
Resolved(stage, rule_id, action, confidence) ==
    [stage |-> stage, rule_id |-> rule_id,
     strategy |-> IF action = "keep-bmad" THEN "keep_bmad" ELSE "keep_linear",
     confidence |-> confidence]

AutoResolve(rules, conflict_data, ml_prediction, pattern, confidence_threshold) ==
    LET matching_rule == FindMatchingRule(rules, conflict_data) IN
    IF matching_rule # NoRule /\ matching_rule.rule.confidence >= confidence_threshold
    THEN Resolved("rule", matching_rule.rule_id, matching_rule.rule.action,
                  matching_rule.rule.confidence)
    ELSE IF ml_prediction.given /\ ml_prediction.confidence >= confidence_threshold
    THEN Resolved("ml", 0, "keep-bmad", ml_prediction.confidence)
    ELSE IF pattern.given /\ pattern.confidence >= confidence_threshold
    THEN Resolved("pattern", 0, "keep-linear", pattern.confidence)
    ELSE [stage |-> None]

AutoResolveCalls ==
    [fn : {"auto_resolve"}, file : RuleFiles,
     conflict_data : [bmad_state : {"review"}, linear_state : {"Done", "Todo"}],
     ml_prediction : Suggestions, pattern : Suggestions, confidence_threshold : {85}]

CallAutoResolve ==
    /\ PureFrame
    /\ call.fn = "auto_resolve"
    /\ ~ret.done
    /\ ret' = Returns(AutoResolve(LoadRules(call.file), call.conflict_data,
                                  call.ml_prediction, call.pattern,
                                  call.confidence_threshold))
    /\ UNCHANGED call

\* --------------------------------------------------- three-way merge (pure)
\* Entries of the state history handed to find_common_ancestor.
MaxHistory == 2

HistoryStates == {"ready-for-dev", "review", "Todo"}

HistoryEntries == [content_key : ConflictKeys, state : HistoryStates, timestamp : 0..MaxTime]

Histories == UNION {[1..n -> HistoryEntries] : n \in 0..MaxHistory}

NoEntry == [content_key |-> None]

\* list.sort(key=timestamp): stable, oldest first.
RECURSIVE InsertByTimestamp(_, _)
InsertByTimestamp(sorted, h) ==
    IF sorted = <<>> THEN <<h>>
    ELSE IF Head(sorted).timestamp <= h.timestamp
         THEN <<Head(sorted)>> \o InsertByTimestamp(Tail(sorted), h)
         ELSE <<h>> \o sorted

RECURSIVE SortByTimestamp(_)
SortByTimestamp(history) ==
    IF history = <<>> THEN <<>>
    ELSE InsertByTimestamp(SortByTimestamp(SubSeq(history, 1, Len(history) - 1)),
                           history[Len(history)])

\* The loop over reversed(relevant_history): the last entry whose state is
\* neither side's, or NoEntry.
RECURSIVE LastDivergent(_, _, _)
LastDivergent(relevant_history, bmad_state, linear_state) ==
    IF relevant_history = <<>> THEN NoEntry
    ELSE LET entry == relevant_history[Len(relevant_history)] IN
         IF entry.state # bmad_state /\ entry.state # linear_state THEN entry
         ELSE LastDivergent(SubSeq(relevant_history, 1, Len(relevant_history) - 1),
                            bmad_state, linear_state)

\* ThreeWayMerge.find_common_ancestor.
FindCommonAncestor(content_key, bmad_state, linear_state, history) ==
    LET relevant_history ==
            SortByTimestamp(SelectSeq(history, LAMBDA h : h.content_key = content_key))
        divergent == LastDivergent(relevant_history, bmad_state, linear_state)
    IN  IF relevant_history = <<>> THEN NoEntry
        ELSE IF divergent # NoEntry THEN divergent
        ELSE relevant_history[1]

\* ThreeWayMerge.create_three_way_conflict.
ThreeWayConflict(content_key, bmad_state, linear_state, bmad_updated, linear_updated, history) ==
    LET ancestor == FindCommonAncestor(content_key, bmad_state, linear_state, history) IN
    [content_key |-> content_key, bmad_state |-> bmad_state, linear_state |-> linear_state,
     ancestor_state |-> IF ancestor # NoEntry THEN ancestor.state ELSE None,
     bmad_updated |-> bmad_updated, linear_updated |-> linear_updated,
     ancestor_updated |-> IF ancestor # NoEntry THEN ancestor.timestamp ELSE 0]

\* ThreeWayMerge._recommend_three_way_resolution: the recommendation and
\* its confidence in hundredths, or the exception raised.
Recommendation(r, c) == [recommendation |-> r, confidence |-> c]

RecommendThreeWayResolution(conflict) ==
    IF conflict.ancestor_state = None THEN Recommendation("intelligent-merge", 50)
    ELSE IF conflict.bmad_state = conflict.ancestor_state THEN Recommendation("keep-linear", 90)
    ELSE IF conflict.linear_state = conflict.ancestor_state THEN Recommendation("keep-bmad", 90)
    ELSE LET newer == DatetimeGreater(conflict.bmad_updated, conflict.linear_updated) IN
         IF newer = "TypeError" THEN Recommendation("TypeError", 0)
         ELSE IF newer = "True" THEN Recommendation("keep-bmad", 70)
         ELSE Recommendation("keep-linear", 70)

\* ThreeWayMerge.perform_three_way_merge: the resolved state, or the
\* exception raised.
Merged(state, source, resolution) == [state |-> state, source |-> source, resolution |-> resolution]

PerformThreeWayMerge(conflict, strategy) ==
    IF strategy = "keep-bmad" THEN Merged(conflict.bmad_state, "bmad", "manual-bmad")
    ELSE IF strategy = "keep-linear" THEN Merged(conflict.linear_state, "linear", "manual-linear")
    ELSE IF strategy = "ancestor" /\ conflict.ancestor_state # None
         THEN Merged(conflict.ancestor_state, "ancestor", "revert-to-ancestor")
    ELSE LET recommended == RecommendThreeWayResolution(conflict)
             newer == DatetimeGreater(conflict.bmad_updated, conflict.linear_updated)
         IN  IF recommended.recommendation = "TypeError" THEN Merged("TypeError", None, "auto")
             ELSE IF recommended.recommendation = "keep-bmad"
                  THEN Merged(conflict.bmad_state, "bmad", "auto")
             ELSE IF recommended.recommendation = "keep-linear"
                  THEN Merged(conflict.linear_state, "linear", "auto")
             ELSE IF newer = "TypeError" THEN Merged("TypeError", None, "auto")
             ELSE IF newer = "True" THEN Merged(conflict.bmad_state, "bmad", "auto")
             ELSE Merged(conflict.linear_state, "linear", "auto")

\* ConflictResolver.create_three_way_conflict followed by visualize_three_way
\* and resolve_three_way of the conflict.
ThreeWayCalls ==
    [fn : {"three_way"}, content_key : {"1-1-setup"}, bmad_state : {"review", "ready-for-dev"},
     linear_state : {"Todo", "Done"}, bmad_updated : Timestamps, linear_updated : Timestamps,
     history : Histories, strategy : {"auto", "ancestor"}]

CallThreeWay ==
    /\ PureFrame
    /\ call.fn = "three_way"
    /\ ~ret.done
    /\ LET conflict == ThreeWayConflict(call.content_key, call.bmad_state, call.linear_state,
                                        call.bmad_updated, call.linear_updated, call.history)
       IN  ret' = Returns([ancestor |-> FindCommonAncestor(call.content_key, call.bmad_state,
                                                           call.linear_state, call.history),
                           conflict |-> conflict,
                           recommended |-> RecommendThreeWayResolution(conflict),
                           merged |-> PerformThreeWayMerge(conflict, call.strategy)])
    /\ UNCHANGED call

\* ------------------------------------------------ epic state aggregation (pure)
\* Story entries of the epic in sprint-status that are followed.
MaxEpicStories == 2

StoryStatuses ==
    {"backlog", "drafted", "ready-for-dev", "in-progress", "review", "done", "wont-do", " Done"}

\* norm: (s or '').strip().lower()
Norm(s) == IF s = " Done" THEN "done" ELSE s

IsDoneLike(s) == s \in {"done", "wont-do", "wontdo", "won't-do"}

\* sprint-status as far as the epic is concerned: the statuses of its
\* stories, its retrospective entry and its own entry; "" is an absent one.
SprintStatuses ==
    [stories : UNION {[ks -> StoryStatuses] : ks \in SUBSET (1..MaxEpicStories)},
     retrospective : {"", "optional", "completed"},
     epic : {"", "backlog"}]

\* SyncEngine._aggregate_epic_state(epic_key, sprint_status) for an epic key.
AggregateEpicState(sprint_status) ==
    LET values_norm == {Norm(sprint_status.stories[k]) : k \in DOMAIN sprint_status.stories}
        all_done == values_norm # {} /\ \A s \in values_norm : IsDoneLike(s)
        all_ready == values_norm # {} /\ \A s \in values_norm : s = "ready-for-dev"
        any_ip == "in-progress" \in values_norm
        any_review == "review" \in values_norm
        retro_completed == Norm(sprint_status.retrospective) = "completed"
        any_done_like == \E s \in values_norm : IsDoneLike(s)
    IN  IF /\ DOMAIN sprint_status.stories = {}
           /\ sprint_status.retrospective = ""
           /\ sprint_status.epic = ""
        THEN None
        ELSE IF retro_completed THEN "done"
        ELSE IF all_ready THEN "ready-for-dev"
        ELSE IF all_done /\ ~retro_completed THEN "review"
        ELSE IF any_ip \/ any_review \/ (any_done_like /\ ~all_done) THEN "in-progress"
        ELSE IF values_norm # {} /\ ~all_done /\ ~all_ready THEN "in-progress"
        ELSE "backlog"

AggregateCalls == [fn : {"_aggregate_epic_state"}, sprint_status : SprintStatuses]

CallAggregateEpicState ==
    /\ PureFrame
    /\ call.fn = "_aggregate_epic_state"
    /\ ~ret.done
    /\ ret' = Returns(AggregateEpicState(call.sprint_status))
    /\ UNCHANGED call

\* ---------------------------------------------------- number registry systems
NumberingFrame == UNCHANGED <<syncVars, lockVars, portVars, pureVars, resolverVars,
                wrapperVars,
                logVars,
                rollbackVars,
                detectVars>>

EpicNumbers == 1..MaxEpics

\* The (epic_base, block_size) pairs a system is constructed with.
NumberingConfigs == [epic_base : {TrackerBase, TrackerBase + 1},
                     block_size : {BlockSize, BlockSize + 1}]

\* _create_empty_registry
EmptyNumberRegistry ==
    [epics |-> <<>>, stories |-> <<>>, renumbering_history |-> <<>>, conflicts |-> 0]

NoSystem == [live |-> FALSE, epic_base |-> 0, block_size |-> 0,
             registry |-> EmptyNumberRegistry]

\* EpicNumberingSystem.calculate_epic_range
CalculateEpicRange(epic_base, block_size, epic_number) ==
    LET base == epic_base + ((epic_number - 1) * block_size) IN
    [epic_number |-> epic_number, base |-> base, range_start |-> base,
     range_end |-> base + block_size - 1]

\* EpicNumberRange.contains
Contains(epic_range, number) ==
    epic_range.range_start <= number /\ number <= epic_range.range_end

\* A check that looks for the new range's start inside an existing range only.
CheckStartOnly(epics, epic_range) ==
    {n \in DOMAIN epics :
        /\ epics[n].epic_number # epic_range.epic_number
        /\ Contains(epics[n], epic_range.range_start)}

\* EpicNumberingSystem.check_conflicts: the registered epics, other than the
\* range's own, whose range overlaps it.
CheckConflicts(epics, epic_range) ==
    {n \in DOMAIN epics :
        /\ epics[n].epic_number # epic_range.epic_number
        /\ epic_range.range_start <= epics[n].range_end
        /\ epic_range.range_end >= epics[n].range_start}

\* What a call of a numbering system returned: the number, or ValueError.
NoNumber == [raised |-> FALSE, number |-> 0]

Number(n) == [raised |-> FALSE, number |-> n]

ValueError == [raised |-> TRUE, number |-> 0]

\* The numbering at rest, for the specifications of the other machines.
IdleNumbering ==
    /\ number_file = EmptyNumberRegistry
    /\ epic_systems = [i \in 1..NumSystems |-> NoSystem]
    /\ story_system = NoSystem
    /\ linear_issues = {}
    /\ num_ret = NoNumber

\* EpicNumberingSystem(epic_base, block_size, registry_path): _load_registry
\* reads the registry file.
EpicSystemInit(i, config) ==
    /\ NumberingFrame
    /\ epic_systems' = [epic_systems EXCEPT ![i] =
            [live |-> TRUE, epic_base |-> config.epic_base,
             block_size |-> config.block_size, registry |-> number_file]]
    /\ num_ret' = NoNumber
    /\ UNCHANGED <<number_file, story_system, linear_issues>>

\* EpicNumberingSystem.reserve_epic_range(epic_number) on system i.
ReserveEpicRange(i, epic_number) ==
    /\ NumberingFrame
    /\ epic_systems[i].live
    /\ LET system == epic_systems[i]
           epic_range == CalculateEpicRange(system.epic_base, system.block_size, epic_number)
           conflicts == CheckConflicts(system.registry.epics, epic_range)
           saved == [system.registry EXCEPT
                        !.epics = Put(system.registry.epics, epic_number, epic_range)]
       IN  IF conflicts # {}
           THEN /\ num_ret' = ValueError
                /\ UNCHANGED <<number_file, epic_systems>>
           ELSE /\ epic_systems' = [epic_systems EXCEPT ![i].registry = saved]
                /\ number_file' = saved
                /\ num_ret' = Number(epic_range.range_start)
    /\ UNCHANGED <<story_system, linear_issues>>

NextEpicNumbering ==
    \/ \E i \in 1..NumSystems, config \in NumberingConfigs : EpicSystemInit(i, config)
    \/ \E i \in 1..NumSystems, n \in EpicNumbers : ReserveEpicRange(i, n)

\* ---- story numbers
NumberedStories == {"1-1-setup", "1-2-login", "2-1-report"}

StoryNumbers == 1..BlockSize

\* The numbers of the epic ranges, and one above them.
TrackerNumbers == TrackerBase..(TrackerBase + MaxEpics * BlockSize)

\* A lookup that finds no number assigned.
NumberUnchecked(stories, number) == FALSE

\* StoryNumberingSystem._is_number_assigned
IsNumberAssigned(stories, number) ==
    \E k \in DOMAIN stories : stories[k].linear_number = number

\* StoryNumberingSystem.check_linear_conflict: the tracker has the issue.
CheckLinearConflict(number) == number \in linear_issues

\* The first number of the range, in ascending order, that is free.
FirstAvailable(stories, epic_range) ==
    LET free == {n \in epic_range.range_start..epic_range.range_end :
                    ~IsNumberAssigned(stories, n) /\ ~CheckLinearConflict(n)}
    IN  IF free = {} THEN 0 ELSE CHOOSE n \in free : \A m \in free : n <= m

\* StoryNumberingSystem.find_next_available_number: the number, or 0 for
\* the ValueError raised when the range has none.
FindNextAvailableNumber(system, epic_number, preferred_story_number) ==
    LET epic_range == CalculateEpicRange(system.epic_base, system.block_size, epic_number)
        preferred_num == epic_range.base + preferred_story_number
    IN  IF /\ Contains(epic_range, preferred_num)
           /\ ~IsNumberAssigned(system.registry.stories, preferred_num)
           /\ ~CheckLinearConflict(preferred_num)
        THEN preferred_num
        ELSE FirstAvailable(system.registry.stories, epic_range)

\* The number assign_story_number gives a story that has none: the
\* preferred number (0 for None) when it is in the range and free,
\* otherwise the next available one; 0 for the ValueError.
AssignedNumber(system, epic_number, story_number, preferred_number) ==
    LET epic_range == CalculateEpicRange(system.epic_base, system.block_size, epic_number)
    IN  IF /\ preferred_number # 0
           /\ Contains(epic_range, preferred_number)
           /\ ~IsNumberAssigned(system.registry.stories, preferred_number)
           /\ ~CheckLinearConflict(preferred_number)
        THEN preferred_number
        ELSE FindNextAvailableNumber(system, epic_number, story_number)

\* The conflicts _log_conflict appends during the assignment.
LoggedConflicts(system, epic_number, preferred_number) ==
    LET epic_range == CalculateEpicRange(system.epic_base, system.block_size, epic_number)
    IN  IF /\ preferred_number # 0
           /\ Contains(epic_range, preferred_number)
           /\ \/ IsNumberAssigned(system.registry.stories, preferred_number)
              \/ CheckLinearConflict(preferred_number)
        THEN 1 ELSE 0

Assignment(linear_number, epic_number, story_number) ==
    [linear_number |-> linear_number, epic_number |-> epic_number,
     story_number |-> story_number]

\* The registry of the system after assign_story_number(story_key, ...)
\* for a story without a number; the story is absent after a ValueError.
WithAssignment(system, story_key, epic_number, story_number, preferred_number) ==
    LET number == AssignedNumber(system, epic_number, story_number, preferred_number)
        logged == [system.registry EXCEPT
                      !.conflicts = @ + LoggedConflicts(system, epic_number, preferred_number)]
    IN  IF number = 0 THEN logged
        ELSE [logged EXCEPT !.stories = Put(logged.stories, story_key,
                                Assignment(number, epic_number, story_number))]

\* dict without the key.
Without(m, k) == [x \in (DOMAIN m) \ {k} |-> m[x]]

\* StoryNumberingSystem(team_prefix, epic_base, block_size, registry_path)
StorySystemInit ==
    /\ NumberingFrame
    /\ ~story_system.live
    /\ story_system' = [live |-> TRUE, epic_base |-> TrackerBase, block_size |-> BlockSize,
                        registry |-> number_file]
    /\ num_ret' = NoNumber
    /\ UNCHANGED <<number_file, epic_systems, linear_issues>>

\* StoryNumberingSystem.assign_story_number
AssignStoryNumber(story_key, epic_number, story_number, preferred_number) ==
    /\ NumberingFrame
    /\ story_system.live
    /\ story_system.registry.conflicts
            + LoggedConflicts(story_system, epic_number, preferred_number) <= MaxLogged
    /\ IF story_key \in DOMAIN story_system.registry.stories
       THEN /\ num_ret' = Number(story_system.registry.stories[story_key].linear_number)
            /\ UNCHANGED <<story_system, number_file>>
       ELSE LET after == WithAssignment(story_system, story_key, epic_number, story_number,
                                        preferred_number)
            IN  /\ story_system' = [story_system EXCEPT !.registry = after]
                /\ IF story_key \in DOMAIN after.stories
                   THEN /\ number_file' = after
                        /\ num_ret' = Number(after.stories[story_key].linear_number)
                   ELSE /\ num_ret' = ValueError
                        /\ UNCHANGED number_file
    /\ UNCHANGED <<epic_systems, linear_issues>>

\* StoryNumberingSystem.renumber_story
RenumberStory(story_key, new_epic_number, new_story_number) ==
    /\ NumberingFrame
    /\ story_system.live
    /\ Len(story_system.registry.renumbering_history) < MaxLogged
    /\ IF story_key \notin DOMAIN story_system.registry.stories
       THEN /\ num_ret' = ValueError
            /\ UNCHANGED <<story_system, number_file>>
       ELSE LET old_number == story_system.registry.stories[story_key].linear_number
                deleted == [story_system EXCEPT
                               !.registry.stories = Without(@, story_key)]
                after == WithAssignment(deleted, story_key, new_epic_number,
                                        new_story_number, 0)
            IN  IF story_key \in DOMAIN after.stories
                THEN LET saved == [after EXCEPT !.renumbering_history = Append(@,
                                        [story_key |-> story_key, old_number |-> old_number,
                                         new_number |-> after.stories[story_key].linear_number])]
                     IN  /\ story_system' = [story_system EXCEPT !.registry = saved]
                         /\ number_file' = saved
                         /\ num_ret' = Number(saved.stories[story_key].linear_number)
                ELSE /\ story_system' = [story_system EXCEPT !.registry = after]
                     /\ num_ret' = ValueError
                     /\ UNCHANGED number_file
    /\ UNCHANGED <<epic_systems, linear_issues>>

NextStoryNumbering ==
    \/ StorySystemInit
    \/ \E k \in NumberedStories, e \in EpicNumbers, s \in StoryNumbers,
          p \in {0} \cup TrackerNumbers : AssignStoryNumber(k, e, s, p)
    \/ \E k \in NumberedStories, e \in EpicNumbers, s \in StoryNumbers :
          RenumberStory(k, e, s)

\* ------------------------------------------------------- hierarchy registration
\* The registrations change hierarchy.json and number_registry.json only.
HierarchyFrame ==
    UNCHANGED <<files, content_index, sync_state, backup, nextId, created, cfg, ops, pos, pc,
                success, failed, applied, startFiles, firstApplyOk, run,
                lockVars, portVars, pureVars, resolverVars, numberingVars,
                wrapperVars,
                logVars,
                rollbackVars,
                detectVars>>

HierarchyEpics == {EpicKey(n) : n \in 1..MaxEpics}

HierarchyStories == {StoryKey(1, 1, Slug), StoryKey(2, 1, Slug)}

TrackerIds == {TrackerBase, TrackerBase + 1}

\* HierarchyManager.register_story without a parent_epic_key.
HierRegisterOrphan(h, key, id) == [h EXCEPT !.stories = Put(h.stories, key, id)]

\* hm.register_epic(epic_key, linear_id)
RegisterEpic(epic_key, linear_id) ==
    /\ HierarchyFrame
    /\ hier' = HierRegisterEpic(hier, epic_key, linear_id)
    /\ UNCHANGED registry

\* hm.register_story(story_key, linear_id, parent_epic_key)
RegisterStory(story_key, linear_id, parent_epic_key) ==
    /\ HierarchyFrame
    /\ hier' = HierRegisterStory(hier, story_key, linear_id, parent_epic_key)
    /\ UNCHANGED registry

\* hm.register_story(story_key, linear_id)
RegisterStoryWithoutParent(story_key, linear_id) ==
    /\ HierarchyFrame
    /\ hier' = HierRegisterOrphan(hier, story_key, linear_id)
    /\ UNCHANGED registry

\* StateManager.register_issue(story_key, issue_id)
RegisterIssue(key, issue_id) ==
    /\ HierarchyFrame
    /\ hier' = RegisterInHierarchy(hier, key, issue_id)
    /\ registry' = RegisterInRegistry(registry, key, issue_id)

NextHierarchy ==
    \/ \E k \in HierarchyEpics, id \in TrackerIds : RegisterEpic(k, id)
    \/ \E k \in HierarchyStories, id \in TrackerIds, p \in HierarchyEpics :
            RegisterStory(k, id, p)
    \/ \E k \in HierarchyStories, id \in TrackerIds : RegisterStoryWithoutParent(k, id)
    \/ \E k \in HierarchyEpics \cup HierarchyStories, id \in TrackerIds : RegisterIssue(k, id)

\* ------------------------------------------------------- tracker CLI wrapper
WrapperFrame ==
    UNCHANGED <<syncVars, lockVars, portVars, pureVars, resolverVars, numberingVars,
                logVars,
                rollbackVars,
                detectVars>>

\* No call of _exec is under way.
IdleWrapper ==
    exec = [pc |-> "idle", retries |-> 0, retry_delay |-> 0, attempt |-> 0,
            invocations |-> 0, delays |-> <<>>, retried |-> <<>>]

RECURSIVE Pow2(_)
Pow2(n) == IF n = 0 THEN 1 ELSE 2 * Pow2(n - 1)

\* A backoff that waits the base delay before every retry.
ConstantDelay(retry_delay, attempt) == retry_delay

\* delay = self.retry_delay * (2 ** attempt)
Backoff(retry_delay, attempt) == retry_delay * Pow2(attempt)

\* What one subprocess.run of the tracker binary comes to: exit 0, a non-zero
\* exit whose message names a rate limit, a timeout or the network, another
\* non-zero exit, TimeoutExpired, or another exception.
RunOutcomes == {"ok", "transient", "permanent", "timeout", "exception"}

\* _exec(args, retries): the loop is entered with attempt 0.
ExecCall(retries, retry_delay) ==
    /\ WrapperFrame
    /\ exec.pc = "idle"
    /\ exec' = [exec EXCEPT !.pc = "run", !.retries = retries, !.retry_delay = retry_delay]

\* One iteration of the loop: the binary is run once; a transient failure or
\* a timeout with attempts left sleeps the backoff and continues, every other
\* failure raises LinctlError.
ExecAttempt(outcome) ==
    /\ WrapperFrame
    /\ exec.pc = "run"
    /\ exec.attempt < exec.retries + 1
    /\ LET ran == [exec EXCEPT !.invocations = @ + 1] IN
       IF outcome = "ok" THEN exec' = [ran EXCEPT !.pc = "returned"]
       ELSE IF outcome \in {"transient", "timeout"} /\ exec.attempt < exec.retries
            THEN exec' = [ran EXCEPT
                            !.delays = Append(@, Backoff(exec.retry_delay, exec.attempt)),
                            !.retried = Append(@, outcome),
                            !.attempt = @ + 1]
       ELSE exec' = [ran EXCEPT !.pc = "raised"]

NextWrapper ==
    \/ \E retries \in 0..MaxRetries, retry_delay \in {1, 2} : ExecCall(retries, retry_delay)
    \/ \E outcome \in RunOutcomes : ExecAttempt(outcome)

\* ------------------------------------------------------ mapping round trip

\* story_states.bmad_to_linear of state_mapping.yaml: "drafted" and
\* "ready-for-dev" both go to "Todo".
BmadToLinearMap ==
    [backlog |-> "Backlog", drafted |-> "Todo"] @@
    ("ready-for-dev" :> "Todo") @@ ("in-progress" :> "In Progress") @@
    ("review" :> "In Review") @@ ("done" :> "Done")

\* A bmad_to_linear that ignores the table and answers its default.
BmadToLinearDefault(strict, bmad_state) == "Backlog"

\* StateMapper.bmad_to_linear(bmad_state) for a story.
BmadToLinear(strict, bmad_state) ==
    IF bmad_state = "" THEN "Backlog"
    ELSE IF bmad_state \notin DOMAIN BmadToLinearMap
         THEN IF strict THEN "StateMappingError" ELSE "Backlog"
    ELSE BmadToLinearMap[bmad_state]

\* Local states handed to the round trip: the workflow states, a missing
\* one and one the mapping does not know.
RoundTripStates == BmadStates \cup {"", "blocked"}

\* The state's mapping has an inverse: the tracker state it maps to is
\* mapped back to it by the opposite table.
HasInverse(bmad_state) ==
    /\ bmad_state \in DOMAIN BmadToLinearMap
    /\ BmadToLinearMap[bmad_state] \in DOMAIN LinearToBmadMap
    /\ LinearToBmadMap[BmadToLinearMap[bmad_state]] = bmad_state

RoundTripCalls == [fn : {"round_trip"}, strict : BOOLEAN, bmad_state : RoundTripStates]

\* linear_to_bmad(bmad_to_linear(s)); a StateMappingError raised by the
\* inner call ends the expression.
CallRoundTrip ==
    /\ PureFrame
    /\ call.fn = "round_trip"
    /\ ~ret.done
    /\ LET linear_state == BmadToLinear(call.strict, call.bmad_state)
       IN ret' = Returns([linear |-> linear_state,
                          bmad |-> IF linear_state = "StateMappingError"
                                   THEN "StateMappingError"
                                   ELSE LinearToBmad(call.strict, linear_state)])
    /\ UNCHANGED call

\* ---------------------------------------------------- transition validation

\* valid_transitions of state_mapping.yaml: one step forward in the workflow,
\* review back to in-progress and done reopened.  The expectations of the
\* module's self-test hold on it: backlog -> drafted, drafted -> ready-for-dev
\* and done -> in-progress are valid, backlog -> done is not.
ValidTransitions ==
    [backlog |-> {"drafted"}, drafted |-> {"ready-for-dev"}, done |-> {"in-progress"}] @@
    ("ready-for-dev" :> {"in-progress"}) @@ ("in-progress" :> {"review"}) @@
    ("review" :> {"done", "in-progress"})

\* StateMapper.validate_transition(from_state, to_state)[0].
ValidateTransition(from_state, to_state) ==
    LET allowed_targets == IF from_state \in DOMAIN ValidTransitions
                           THEN ValidTransitions[from_state] ELSE {}
    IN to_state \in allowed_targets

\* ------------------------------------------------- sync state history caps

LogFrame == UNCHANGED <<syncVars, lockVars, portVars, pureVars, resolverVars, numberingVars,
                wrapperVars,
                rollbackVars,
                detectVars>>

IdleLog ==
    /\ log_state = InitialSyncState /\ log_calls = <<>>
    /\ log_prior = [n |-> 0, m |-> 1]

\* state['operations'] = operations[-100:]
OperationsKept == 100

\* state['errors'] = errors[-50:]
ErrorsKept == 50

\* s[:n], the slice that keeps the oldest records.
FirstN(s, n) == IF Len(s) <= n THEN s ELSE SubSeq(s, 1, n)

\* s[-n:]
LastN(s, n) == IF Len(s) <= n THEN s ELSE SubSeq(s, Len(s) - n + 1, Len(s))

\* The body of StateManager.update_sync_state on the loaded state.
UpdateSyncState(state, operation_record) ==
    [last_sync |-> operation_record.timestamp,
     operations |-> LastN(Append(state.operations, operation_record), OperationsKept),
     errors |-> IF operation_record.result = "failure"
                THEN LastN(Append(state.errors, operation_record), ErrorsKept)
                ELSE state.errors]

Results == {"success", "failure", "partial"}

\* Earlier runs: none, or calls up to one short of the operations cap, or up
\* to it; all of them failed, or every second one, or none.
PriorRuns == [n : {0, OperationsKept - 1, OperationsKept}, m : {1, 2, OperationsKept + 1}]

\* The result of the i-th call of the earlier runs.
PriorResult(prior, i) == IF i % prior.m = 0 THEN "failure" ELSE "success"

\* StateManager.update_sync_state(operation, result)
UpdateSyncStateCall(result) ==
    /\ LogFrame
    /\ Len(log_calls) < log_prior.n + MaxCalls
    /\ Len(log_calls) < log_prior.n => result = PriorResult(log_prior, Len(log_calls) + 1)
    /\ LET operation_record == [timestamp |-> Len(log_calls) + 1, result |-> result] IN
        /\ log_state' = UpdateSyncState(log_state, operation_record)
        /\ log_calls' = Append(log_calls, operation_record)
    /\ UNCHANGED log_prior

NextLog == \E result \in Results : UpdateSyncStateCall(result)

\* ------------------------------------------------------------ change detection

DiffKeys == {"1-1-setup", "1-2-login", "2-1-report"}

Hashes == {"h1", "h2"}

\* The stories of an index: story key -> hash.
StoryIndices == UNION { [ks -> Hashes] : ks \in SUBSET DiffKeys }

\* The comparison of discover_all with the test turned round: a key of both
\* indices counts as modified when its hashes are equal.
ModifiedWhenEqual(prev_stories, curr_stories) ==
    { key \in DOMAIN curr_stories \cap DOMAIN prev_stories :
        curr_stories[key] = prev_stories[key] }

\* discover_all, "# Modified": the keys of both indices whose hashes differ.
Modified(prev_stories, curr_stories) ==
    { key \in DOMAIN curr_stories \cap DOMAIN prev_stories :
        curr_stories[key] # prev_stories[key] }

\* ContentDiscovery.discover_all(previous_index)["changes"], the current
\* index being what _build_current_index found; the three lists as sets.
DiscoverAll(has_previous, prev_stories, curr_stories) ==
    IF ~has_previous
    THEN [added |-> {}, modified |-> {}, deleted |-> {}]
    ELSE [added |-> DOMAIN curr_stories \ DOMAIN prev_stories,
          modified |-> Modified(prev_stories, curr_stories),
          deleted |-> DOMAIN prev_stories \ DOMAIN curr_stories]

DiscoverCalls ==
    [fn : {"discover_all"}, has_previous : {TRUE}, prev_stories : StoryIndices,
     curr_stories : StoryIndices]
    \cup [fn : {"discover_all"}, has_previous : {FALSE}, prev_stories : {<<>>},
          curr_stories : StoryIndices]

CallDiscoverAll ==
    /\ PureFrame
    /\ call.fn = "discover_all"
    /\ ~ret.done
    /\ ret' = Returns(DiscoverAll(call.has_previous, call.prev_stories, call.curr_stories))
    /\ UNCHANGED call

\* --------------------------------------------------------------- rollback

RollbackFrame == UNCHANGED <<syncVars, lockVars, portVars, pureVars, resolverVars,
                numberingVars, wrapperVars, logVars,
                detectVars>>

\* Largest number of writes the applies make to the state files.
MaxWrites == 3

\* The three files apply copies to backups/pre-sync-<ts>/ and rollback_last
\* copies back.
SnapshotNames == {"content_index", "sync_state", "number_registry"}

\* The state files, each holding the number of the write that wrote it.
InitRollback ==
    rb = [files |-> [name \in SnapshotNames |-> 0],
          backups |-> <<>>, clock |-> 0, pc |-> "idle", backup_root |-> 0,
          failed |-> 0, start |-> [name \in SnapshotNames |-> 0],
          outcomes |-> <<>>, written |-> 0, rolled_back |-> FALSE]

IdleRollback == InitRollback

\* One second passes.
RbTick ==
    /\ RollbackFrame
    /\ rb.clock < MaxTime
    /\ rb' = [rb EXCEPT !.clock = @ + 1, !.rolled_back = FALSE]

\* SyncEngine.apply up to the loop: the state files are copied to
\* backups/pre-sync-<second>/, a directory that may exist already.
RbApplyBegin ==
    /\ RollbackFrame
    /\ rb.pc = "idle"
    /\ Len(rb.outcomes) < MaxRuns
    /\ rb' = [rb EXCEPT !.pc = "applying", !.backup_root = rb.clock, !.failed = 0,
                        !.backups = (rb.clock :> rb.files) @@ rb.backups,
                        !.start = rb.files, !.rolled_back = FALSE]

\* One operation of the loop succeeds and a state file is written.
RbApplyWrite(name) ==
    /\ RollbackFrame
    /\ rb.pc = "applying"
    /\ rb.written < MaxWrites
    /\ rb' = [rb EXCEPT !.files[name] = rb.written + 1, !.written = @ + 1]

\* One operation of the loop fails.
RbApplyFail ==
    /\ RollbackFrame
    /\ rb.pc = "applying"
    /\ rb.failed = 0
    /\ rb' = [rb EXCEPT !.failed = 1]

\* SyncEngine.apply after the loop: on any failure the three files are
\* copied back from this apply's backup directory.
RbApplyEnd ==
    /\ RollbackFrame
    /\ rb.pc = "applying"
    /\ rb' = [rb EXCEPT !.pc = "idle",
                        !.files = IF rb.failed > 0 THEN rb.backups[rb.backup_root] ELSE @,
                        !.outcomes = Append(@, IF rb.failed > 0 THEN "failed" ELSE "ok")]

\* candidates[0]: the oldest pre-sync directory.
Earliest(backups) == CHOOSE t \in DOMAIN backups : \A u \in DOMAIN backups : t <= u

\* sorted(candidates)[-1]: the pre-sync directory with the greatest name.
Latest(backups) == CHOOSE t \in DOMAIN backups : \A u \in DOMAIN backups : u <= t

\* rollback.rollback_last
RollbackLast ==
    /\ RollbackFrame
    /\ rb.pc = "idle"
    /\ ~rb.rolled_back
    /\ DOMAIN rb.backups # {}
    /\ rb' = [rb EXCEPT !.files = rb.backups[Latest(rb.backups)], !.rolled_back = TRUE]

NextRollback ==
    \/ RbTick \/ RbApplyBegin \/ RbApplyFail \/ RbApplyEnd \/ RollbackLast
    \/ \E name \in SnapshotNames : RbApplyWrite(name)

\* ------------------------------------------- detect_and_record_conflicts
\* The outcome of get_issue_id and issue_get for the story: no tracker id,
\* the fetch raised, or the tracker's record was returned.
FetchOutcomes == {"unregistered", "error", "ok"}

\* SyncEngine.detect_and_record_conflicts(index) for an index of one story:
\* "conflict" when the story's key is in the returned list (and the conflict
\* was saved), "none" when it is not, or the exception that left the method.
\* Empty or missing fields ("" and NoTimestamp) skip the story.
DetectAndRecord(strict, fetch, status, last_modified, linear_state, linear_updated, last_sync) ==
    IF last_sync = NoTimestamp THEN "none"
    ELSE IF fetch # "ok" THEN "none"
    ELSE IF \/ linear_state = "" \/ linear_updated = NoTimestamp
            \/ status = "" \/ last_modified = NoTimestamp
         THEN "none"
    ELSE DetectConflict(strict, status, last_modified, linear_state, linear_updated,
                        last_sync)

DetectAndRecordCalls ==
    [fn : {"detect_and_record_conflicts"}, strict : BOOLEAN, fetch : FetchOutcomes,
     status : BmadStates \cup {""}, last_modified : Timestamps \cup {NoTimestamp},
     linear_state : LinearStates, linear_updated : Timestamps \cup {NoTimestamp},
     last_sync : Timestamps \cup {NoTimestamp}]

CallDetectAndRecord ==
    /\ PureFrame
    /\ call.fn = "detect_and_record_conflicts"
    /\ ~ret.done
    /\ ret' = Returns(DetectAndRecord(call.strict, call.fetch, call.status,
                                      call.last_modified, call.linear_state,
                                      call.linear_updated, call.last_sync))
    /\ UNCHANGED call

\* ------------------------- number_registry.json shared with StateManager
\* The entry StateManager.register_issue creates for a story that has none:
\* {'linear_issue_key': issue_id}.  It has no 'linear_number', 'epic_number'
\* or 'story_number'; the absent keys are written 0 here (tracker numbers
\* start at epic_base).
RegisteredOnly == Assignment(0, 0, 0)

\* Both writers dump the registry with sort_keys=True, so a loaded registry
\* is iterated in the order of the story keys.
StoryOrder == <<"1-1-setup", "1-2-login", "2-1-report">>

\* What "assignment['linear_number'] == number" does on the entries in
\* iteration order: "True" at the first match, "KeyError" at the first entry
\* without the key, "False" at the end.
RECURSIVE ScanAssignments(_, _, _)
ScanAssignments(stories, keys, number) ==
    IF keys = <<>> THEN "False"
    ELSE IF Head(keys) \notin DOMAIN stories THEN ScanAssignments(stories, Tail(keys), number)
    ELSE IF stories[Head(keys)] = RegisteredOnly THEN "KeyError"
    ELSE IF stories[Head(keys)].linear_number = number THEN "True"
    ELSE ScanAssignments(stories, Tail(keys), number)

\* StoryNumberingSystem._is_number_assigned on a registry that may hold
\* entries written by register_issue.
IsNumberAssignedOrRaises(stories, number) == ScanAssignments(stories, StoryOrder, number)

\* The exceptions other than ValueError that leave the numbering calls.
KeyErrorRaised == [raised |-> TRUE, number |-> 0, error |-> "KeyError"]

TypeErrorRaised == [raised |-> TRUE, number |-> 0, error |-> "TypeError"]

\* find_next_available_number, "# Scan range for first available", from
\* number n on.
RECURSIVE ScanRange(_, _, _)
ScanRange(stories, n, range_end) ==
    IF n > range_end THEN ValueError
    ELSE LET assigned == IsNumberAssignedOrRaises(stories, n)
         IN  IF assigned = "KeyError" THEN KeyErrorRaised
             ELSE IF assigned = "False" /\ ~CheckLinearConflict(n) THEN Number(n)
             ELSE ScanRange(stories, n + 1, range_end)

\* find_next_available_number on such a registry: the number returned, or
\* the exception raised.
FindNextOrRaises(system, epic_number, preferred_story_number) ==
    LET epic_range == CalculateEpicRange(system.epic_base, system.block_size, epic_number)
        preferred_num == epic_range.base + preferred_story_number
        stories == system.registry.stories
        assigned == IF Contains(epic_range, preferred_num)
                    THEN IsNumberAssignedOrRaises(stories, preferred_num) ELSE "skipped"
    IN  IF assigned = "KeyError" THEN KeyErrorRaised
        ELSE IF assigned = "False" /\ ~CheckLinearConflict(preferred_num)
             THEN Number(preferred_num)
        ELSE ScanRange(stories, epic_range.range_start, epic_range.range_end)

\* assign_story_number on such a registry, for a story that has no entry:
\* the number assigned or the exception raised, and the conflicts logged on
\* the way.
AssignOrRaises(system, epic_number, story_number, preferred_number) ==
    LET epic_range == CalculateEpicRange(system.epic_base, system.block_size, epic_number)
        stories == system.registry.stories
        assigned == IF preferred_number # 0 /\ Contains(epic_range, preferred_number)
                    THEN IsNumberAssignedOrRaises(stories, preferred_number) ELSE "skipped"
        in_tracker == assigned = "False" /\ CheckLinearConflict(preferred_number)
    IN  [logged |-> IF assigned = "True" \/ in_tracker THEN 1 ELSE 0,
         result |-> IF assigned = "KeyError" THEN KeyErrorRaised
                    ELSE IF assigned = "False" /\ ~in_tracker THEN Number(preferred_number)
                    ELSE FindNextOrRaises(system, epic_number, story_number)]

\* StateManager.register_issue(story_key, issue_id), number registry part:
\* the story's entry is created if absent and its linear_issue_key set.
RegisterIssueInFile(story_key) ==
    /\ NumberingFrame
    /\ number_file' = [number_file EXCEPT !.stories =
                          IF story_key \in DOMAIN @ THEN @
                          ELSE Put(@, story_key, RegisteredOnly)]
    /\ UNCHANGED <<story_system, epic_systems, linear_issues, num_ret>>

\* find_next_available_number(epic_number, preferred_story_number) on the
\* loaded system.
FindNextCall(epic_number, preferred_story_number) ==
    /\ NumberingFrame
    /\ story_system.live
    /\ num_ret' = FindNextOrRaises(story_system, epic_number, preferred_story_number)
    /\ UNCHANGED <<story_system, number_file, epic_systems, linear_issues>>

\* assign_story_number(story_key, epic_number, story_number,
\* preferred_number) on the loaded system: StoryNumberAssignment(**existing)
\* for a story with an entry, otherwise the assignment, stored and saved
\* when a number was found.
AssignCall(story_key, epic_number, story_number, preferred_number) ==
    /\ NumberingFrame
    /\ story_system.live
    /\ IF story_key \in DOMAIN story_system.registry.stories
       THEN /\ num_ret' = IF story_system.registry.stories[story_key] = RegisteredOnly
                          THEN TypeErrorRaised
                          ELSE Number(story_system.registry.stories[story_key].linear_number)
            /\ UNCHANGED <<story_system, number_file>>
       ELSE LET outcome == AssignOrRaises(story_system, epic_number, story_number,
                                          preferred_number)
                logged == [story_system.registry EXCEPT !.conflicts = @ + outcome.logged]
                stored == [logged EXCEPT !.stories = Put(@, story_key,
                              Assignment(outcome.result.number, epic_number, story_number))]
            IN  /\ story_system.registry.conflicts + outcome.logged <= MaxLogged
                /\ num_ret' = outcome.result
                /\ IF outcome.result.raised
                   THEN /\ story_system' = [story_system EXCEPT !.registry = logged]
                        /\ UNCHANGED number_file
                   ELSE /\ story_system' = [story_system EXCEPT !.registry = stored]
                        /\ number_file' = stored
    /\ UNCHANGED <<epic_systems, linear_issues>>

NextRegistryUse ==
    \/ \E k \in NumberedStories : RegisterIssueInFile(k)
    \/ StorySystemInit
    \/ \E e \in EpicNumbers, s \in StoryNumbers : FindNextCall(e, s)
    \/ \E k \in NumberedStories, e \in EpicNumbers, s \in StoryNumbers,
          p \in {0} \cup TrackerNumbers : AssignCall(k, e, s, p)

\* -------------------------------------------------------- specifications
Init ==
    InitSync /\ InitLock /\ IdlePortfolio /\ IdlePure /\ InitResolver /\ IdleNumbering /\ IdleWrapper /\ IdleLog /\ IdleRollback /\ IdleDetect

Next == NextSync

Spec == Init /\ [][Next]_vars

InitLockOnly ==
    IdleSync /\ InitLock /\ IdlePortfolio /\ IdlePure /\ InitResolver /\ IdleNumbering /\ IdleWrapper /\ IdleLog /\ IdleRollback /\ IdleDetect

SpecLock == InitLockOnly /\ [][NextLock]_vars

InitPortfolioOnly ==
    IdleSync /\ InitLock /\ InitPortfolio /\ IdlePure /\ InitResolver /\ IdleNumbering /\ IdleWrapper /\ IdleLog /\ IdleRollback /\ IdleDetect

SpecPortfolio == InitPortfolioOnly /\ [][NextPortfolio]_vars

\* One call of one of the functions without side effects.
PureCalls ==
    DetectConflictCalls \cup AutoResolveCalls \cup ThreeWayCalls \cup AggregateCalls
        \cup RoundTripCalls \cup DiscoverCalls \cup DetectAndRecordCalls

InitPure == call \in PureCalls /\ ret = NotReturned

NextPure ==
    \/ CallDetectConflict \/ CallAutoResolve \/ CallThreeWay \/ CallAggregateEpicState
    \/ CallRoundTrip \/ CallDiscoverAll \/ CallDetectAndRecord

InitPureOnly ==
    IdleSync /\ InitLock /\ IdlePortfolio /\ InitPure /\ InitResolver /\ IdleNumbering /\ IdleWrapper /\ IdleLog /\ IdleRollback /\ IdleDetect

SpecPure == InitPureOnly /\ [][NextPure]_vars

InitResolverOnly ==
    IdleSync /\ InitLock /\ IdlePortfolio /\ IdlePure /\ InitResolver /\ IdleNumbering /\ IdleWrapper /\ IdleLog /\ IdleRollback /\ IdleDetect

SpecResolver == InitResolverOnly /\ [][NextResolver]_vars

InitEpicNumbering ==
    /\ IdleSync /\ InitLock /\ IdlePortfolio /\ IdlePure /\ InitResolver
    /\ IdleNumbering /\ IdleWrapper /\ IdleLog /\ IdleRollback /\ IdleDetect

SpecEpicNumbering == InitEpicNumbering /\ [][NextEpicNumbering]_vars

InitStoryNumbering ==
    /\ IdleSync /\ InitLock /\ IdlePortfolio /\ IdlePure /\ InitResolver
    /\ number_file = EmptyNumberRegistry
    /\ epic_systems = [i \in 1..NumSystems |-> NoSystem]
    /\ story_system = NoSystem
    /\ linear_issues \in SUBSET TrackerNumbers
    /\ num_ret = NoNumber /\ IdleWrapper /\ IdleLog /\ IdleRollback /\ IdleDetect

SpecStoryNumbering == InitStoryNumbering /\ [][NextStoryNumbering]_vars

SpecRegistryUse == InitStoryNumbering /\ [][NextRegistryUse]_vars

\* The hierarchy and the number registry of a project without registrations.
InitHierarchyOnly ==
    /\ IdleSync /\ InitLock /\ IdlePortfolio /\ IdlePure /\ InitResolver
    /\ IdleNumbering /\ IdleWrapper /\ IdleLog /\ IdleRollback /\ IdleDetect

SpecHierarchy == InitHierarchyOnly /\ [][NextHierarchy]_vars

InitWrapperOnly ==
    /\ IdleSync /\ InitLock /\ IdlePortfolio /\ IdlePure /\ InitResolver
    /\ IdleNumbering /\ IdleWrapper /\ IdleLog /\ IdleRollback /\ IdleDetect

SpecWrapper == InitWrapperOnly /\ [][NextWrapper]_vars

InitLogOnly ==
    /\ IdleSync /\ InitLock /\ IdlePortfolio /\ IdlePure /\ InitResolver
    /\ IdleNumbering /\ IdleWrapper /\ IdleRollback
    /\ log_state = InitialSyncState /\ log_calls = <<>> /\ log_prior \in PriorRuns /\ IdleDetect

SpecLog == InitLogOnly /\ [][NextLog]_vars

InitRollbackOnly ==
    /\ IdleSync /\ InitLock /\ IdlePortfolio /\ IdlePure /\ InitResolver
    /\ IdleNumbering /\ IdleWrapper /\ IdleLog /\ InitRollback /\ IdleDetect

SpecRollback == InitRollbackOnly /\ [][NextRollback]_vars

\* ------------------------------------------------------------------ claims
ApplyReturned == pc = "applied" /\ ~cfg.dry_run

\* C1: after apply returns with at least one failed operation, every
\* persistent state file (content_index.json, sync_state.json,
\* number_registry.json, hierarchy.json) equals its content at the moment
\* apply started.
C1_AtomicApply ==
    (ApplyReturned /\ failed > 0) => StateFiles = startFiles

\* C2: a sync (plan, then an apply in which every operation succeeded)
\* followed by a second sync with no change in between plans nothing:
\* the second summary has create = 0 and update = 0.
C2_IdempotentSync ==
    (pc = "planned" /\ run = 2 /\ firstApplyOk)
        => (Summary.create = 0 /\ Summary.update = 0)

\* C4: every planned operation is a create if and only if no tracker id is
\* registered for its content key, and an update otherwise; so every planned
\* update carries an issue id and no create is planned for a registered key.
C4_ActionByRegistration ==
    pc = "planned" =>
        \A i \in 1..Len(ops) :
            /\ (ops[i].action = "create")
                   <=> (GetIssueId(hier, registry, ops[i].content_key) = 0)
            /\ (ops[i].action = "update" => ops[i].issue_id # 0)
            /\ (ops[i].action = "create" => ops[i].issue_id = 0)

\* C5: in the planned list the create of an epic comes before the creates of
\* the stories of that epic, and apply works on the operations in list order.
C5_EpicCreatedFirst ==
    /\ \A i, j \in 1..Len(ops) :
          (/\ ops[i].action = "create" /\ ops[i].content_type = "epic"
           /\ ops[j].action = "create" /\ ops[j].content_type = "story"
           /\ ops[j].content_key.e = ops[i].content_key.e)
              => i < j
    /\ (pc \in {"applying", "applied"} /\ ~cfg.dry_run)
          => applied = SubSeq(ops, 1, Len(applied))

\* The tracker id created in the current apply for a key of type t, 0 if none.

\* C6: after an apply that created an epic and one of its stories, the
\* epic's file is epic-<epic number>-context.md, the story's file and key are
\* <epic number>-<story number>-<slug>, and the new keys are registered to
\* the tracker ids.
C6_RenumberedAfterCreate ==
    (ApplyReturned /\ failed = 0) =>
        \A ce \in {x \in created : x.key.t = "epic"} :
            \A cs \in {x \in created : x.key.t = "story" /\ x.key.e = ce.key.e} :
                /\ \E f \in files : f.t = "epic" /\ f.ctx /\ f.e = ce.id
                /\ \E f \in files :
                      f.t = "story" /\ KeyOfFile(f) = StoryKey(ce.id, cs.id, cs.key.slug)
                /\ GetIssueId(hier, registry, EpicKey(ce.id)) = ce.id
                /\ GetIssueId(hier, registry, StoryKey(ce.id, cs.id, cs.key.slug)) = cs.id

\* C3: at most one acquirer is inside the locked block at any time.
C3_MutualExclusion ==
    Cardinality({p \in Acquirers : lk_pc[p] = "inside"}) <= 1

\* C7: a project whose pipeline had at least one failed operation is
\* reported by the portfolio executor with success = false, and the
\* aggregate counts it in failed_projects.
FailedOps(rs) == {i \in 1..Len(rs) : rs[i].operations_failed > 0}

C7_FailedOpsFailProject ==
    /\ \A i \in FailedOps(project_results) : ~project_results[i].success
    /\ bulk_result.returned =>
          bulk_result.failed_projects >= Cardinality(FailedOps(project_results))

\* C8: a failure or an exception in one project's pipeline never prevents
\* another selected project from running: when sync_all / sync_selective
\* returns, every selected project has exactly one ProjectSyncResult, and
\* successful_projects + failed_projects = total_projects.
ResultsOf(p) == {i \in 1..Len(project_results) : project_results[i].project_key = p}

C8_OneResultPerProject ==
    bulk_result.returned =>
        /\ \A p \in bulk.selected : Cardinality(ResultsOf(p)) = 1
        /\ Len(project_results) = Cardinality(bulk.selected)
        /\ bulk_result.total_projects = Cardinality(bulk.selected)
        /\ bulk_result.successful_projects + bulk_result.failed_projects
              = bulk_result.total_projects

\* C8 happens: the call has returned, one project's future raised, one
\* project's pipeline failed, and another project succeeded.
C8_Witness ==
    /\ bulk_result.returned
    /\ \E p \in bulk.selected : tasks[p].pc = "exception"
    /\ bulk_result.successful_projects > 0
    /\ bulk_result.failed_projects > 0

\* C9: the pipeline of project P reads its state-mapping configuration
\* from, and writes its conflict queue to, P's own .sync directory.
C9_OwnSyncDirectory ==
    \A p \in Projects :
        /\ tasks[p].mapping_read \in {0, p}
        /\ tasks[p].conflicts_written \in {0, p}

\* C10: with max_workers > 1, while the pipeline of project P runs (from
\* after its chdir until it restores the directory), the working directory
\* it observes is P's path.
InPipeline(p) == tasks[p].pc \in {"init", "sync", "detect", "apply", "restore"}

C10_OwnWorkingDirectory ==
    bulk.max_workers > 1 =>
        \A p \in Projects : InPipeline(p) => cwd = p

\* C11: when sync_project returns, whether the pipeline completed or raised,
\* the process working directory equals the directory that was current
\* before that project's run started (the one read into original_dir).
C11_CwdRestored ==
    \A p \in Projects : tasks[p].pc = "complete" => cwd = tasks[p].original_dir

\* C12: detect_conflict returns a conflict if and only if bmad_state
\* differs from the mapped linear_state and both bmad_updated and
\* linear_updated are later instants than last_sync; in every other case
\* it returns none.  (Calls whose tracker state the strict mapping rejects
\* have no mapped state and are left out.)
DetectConflictReturned ==
    /\ call.fn = "detect_conflict"
    /\ ret.done
    /\ LinearToBmad(call.strict, call.linear_state) # "StateMappingError"

ConflictExpected ==
    /\ call.bmad_state # LinearToBmad(call.strict, call.linear_state)
    /\ call.last_sync # NoTimestamp
    /\ call.bmad_updated.t > call.last_sync.t
    /\ call.linear_updated.t > call.last_sync.t

C12_ConflictIff ==
    DetectConflictReturned =>
        ret.value = (IF ConflictExpected THEN "conflict" ELSE "none")


\* C13: every apply_resolution appends exactly one record to the resolution
\* history and removes the conflict it was applied to from the pending
\* queue, leaving all the other pending conflicts in place.
WithoutIndex(q, i) == SubSeq(q, 1, i - 1) \o SubSeq(q, i + 1, Len(q))

C13_ResolutionAccounting ==
    [][\A i \in 1..MaxPending, st \in {"keep_bmad", "keep_linear"} :
          ApplyResolution(i, st) =>
              /\ Len(resolution_history') = Len(resolution_history) + 1
              /\ SubSeq(resolution_history', 1, Len(resolution_history)) = resolution_history
              /\ pending' = WithoutIndex(pending, i)]_vars


\* C14: the custom-rule stage of auto_resolve selects the first rule, in
\* descending priority, that is enabled, matches the conflict and has a
\* confidence at or above the threshold; a matching rule of higher priority
\* below the threshold does not keep a later such rule from winning.
Eligible(r) ==
    /\ EvaluateRule(r.rule, call.conflict_data)
    /\ r.rule.confidence >= call.confidence_threshold

FirstEligible(rules) == rules[CHOOSE i \in 1..Len(rules) :
                                /\ Eligible(rules[i])
                                /\ \A j \in 1..(i - 1) : ~Eligible(rules[j])]

C14_FirstEligibleRuleWins ==
    (call.fn = "auto_resolve" /\ ret.done) =>
        LET rules == LoadRules(call.file) IN
        IF \E i \in 1..Len(rules) : Eligible(rules[i])
        THEN /\ ret.value.stage = "rule"
             /\ ret.value.rule_id = FirstEligible(rules).rule_id
        ELSE ret.value.stage # "rule"


\* C15: find_common_ancestor returns the most recent history entry of the
\* content key whose state is neither the current local nor the current
\* remote state; when the key's history has no such entry it reports no
\* ancestor, and the recommendation is then recent-wins at confidence 0.5.
DivergentEntries ==
    {i \in 1..Len(call.history) :
        /\ call.history[i].content_key = call.content_key
        /\ call.history[i].state # call.bmad_state
        /\ call.history[i].state # call.linear_state}

C15_CommonAncestor ==
    (call.fn = "three_way" /\ ret.done) =>
        IF DivergentEntries # {}
        THEN \E i \in DivergentEntries :
                /\ ret.value.ancestor = call.history[i]
                /\ \A j \in DivergentEntries :
                        call.history[j].timestamp <= call.history[i].timestamp
        ELSE /\ ret.value.ancestor = NoEntry
             /\ ret.value.recommended = Recommendation("intelligent-merge", 50)


\* C16: when the remote side of a three-way conflict equals the ancestor the
\* recommendation is keep-local at confidence 0.9 and the automatic merge
\* takes the local state; when the local side equals the ancestor it is
\* keep-remote at 0.9; and with local review, remote Todo and ancestor
\* ready-for-dev (E2E-D) the remote side counts as equal to the ancestor,
\* so keep-local at 0.9 with the local state as the merge result.
RemoteEqualsAncestor(conflict) ==
    \/ conflict.linear_state = conflict.ancestor_state
    \/ /\ conflict.bmad_state = "review"
       /\ conflict.linear_state = "Todo"
       /\ conflict.ancestor_state = "ready-for-dev"

C16_UnchangedSideLoses ==
    (call.fn = "three_way" /\ ret.done /\ call.strategy = "auto") =>
        LET conflict == ret.value.conflict IN
        /\ (RemoteEqualsAncestor(conflict) /\ conflict.bmad_state # conflict.ancestor_state) =>
                /\ ret.value.recommended = Recommendation("keep-bmad", 90)
                /\ ret.value.merged.state = conflict.bmad_state
        /\ (conflict.bmad_state = conflict.ancestor_state
                /\ conflict.linear_state # conflict.ancestor_state) =>
                /\ ret.value.recommended = Recommendation("keep-linear", 90)
                /\ ret.value.merged.state = conflict.linear_state


\* C17: _aggregate_epic_state returns done when the retrospective is
\* completed; otherwise ready-for-dev when all stories are ready-for-dev;
\* otherwise review when all stories are done-like; otherwise in-progress
\* when some story is in-progress or in review or done-like stories are
\* mixed with others; otherwise backlog.
StoryValues == {Norm(call.sprint_status.stories[k]) : k \in DOMAIN call.sprint_status.stories}

EpicStateExpected ==
    IF Norm(call.sprint_status.retrospective) = "completed" THEN "done"
    ELSE IF StoryValues # {} /\ StoryValues = {"ready-for-dev"} THEN "ready-for-dev"
    ELSE IF StoryValues # {} /\ \A s \in StoryValues : IsDoneLike(s) THEN "review"
    ELSE IF \/ "in-progress" \in StoryValues
            \/ "review" \in StoryValues
            \/ /\ \E s \in StoryValues : IsDoneLike(s)
               /\ \E s \in StoryValues : ~IsDoneLike(s)
         THEN "in-progress"
    ELSE "backlog"

C17_EpicStateAggregation ==
    (call.fn = "_aggregate_epic_state" /\ ret.done /\ ret.value # None) =>
        ret.value = EpicStateExpected


\* C18: after any sequence of reserve_epic_range calls, no two distinct
\* epics of the registry have overlapping ranges; this holds when an epic
\* is reserved again, and for systems constructed with different
\* epic_base and block_size over the same registry.
Disjoint(epics) ==
    \A a \in DOMAIN epics, b \in DOMAIN epics :
        a # b => \/ epics[a].range_end < epics[b].range_start
                 \/ epics[b].range_end < epics[a].range_start

C18_RangesDisjoint ==
    /\ Disjoint(number_file.epics)
    /\ \A i \in 1..NumSystems : Disjoint(epic_systems[i].registry.epics)

C18_Witness ==
    /\ DOMAIN number_file.epics = {1, 2}
    /\ number_file.epics[1].range_end - number_file.epics[1].range_start
            # number_file.epics[2].range_end - number_file.epics[2].range_start
    /\ number_file.epics[1].base # TrackerBase
    /\ epic_systems[1].registry.epics = number_file.epics
    /\ num_ret = ValueError


\* C19: after any sequence of assign_story_number and renumber_story calls
\* no two stories hold the same tracker number, and every story's number
\* lies within the range of its epic.
NumbersUnique(stories) ==
    \A a \in DOMAIN stories, b \in DOMAIN stories :
        a # b => stories[a].linear_number # stories[b].linear_number

NumbersInRange(system) ==
    \A k \in DOMAIN system.registry.stories :
        Contains(CalculateEpicRange(system.epic_base, system.block_size,
                                    system.registry.stories[k].epic_number),
                 system.registry.stories[k].linear_number)

C19_StoryNumbers ==
    /\ NumbersUnique(story_system.registry.stories)
    /\ NumbersUnique(number_file.stories)
    /\ NumbersInRange(story_system)
    /\ NumbersInRange([story_system EXCEPT !.registry = number_file])

C19_Witness ==
    /\ Cardinality(DOMAIN number_file.stories) = 3
    /\ Len(number_file.renumbering_history) = 1
    /\ number_file.conflicts = 1
    /\ number_file.renumbering_history[1].old_number
            # number_file.renumbering_history[1].new_number
    /\ number_file.renumbering_history[1].old_number
            \in {number_file.stories[k].linear_number : k \in DOMAIN number_file.stories}


\* C20: after any sequence of register_epic, register_story and
\* register_issue calls, every story that has a parent has a parent that
\* is a registered epic, and that epic's child list holds the story exactly
\* once.
Occurrences(seq, x) == Cardinality({i \in 1..Len(seq) : seq[i] = x})

C20_ParentRegistered ==
    \A story \in DOMAIN hier.relationships :
        LET parent == hier.relationships[story] IN
        /\ parent \in DOMAIN hier.epics
        /\ parent \in DOMAIN hier.children
        /\ Occurrences(hier.children[parent], story) = 1


\* C21: a call of _exec with retry budget N runs the tracker binary at most
\* N + 1 times, waits retry_delay * 2^k before retry k (k = 0 .. N-1), and
\* retries only failures classified as transient.
C21_BoundedRetries ==
    /\ exec.invocations <= exec.retries + 1
    /\ Len(exec.delays) <= exec.retries
    /\ \A k \in 1..Len(exec.delays) : exec.delays[k] = exec.retry_delay * Pow2(k - 1)
    /\ \A k \in 1..Len(exec.retried) : exec.retried[k] \in {"transient", "timeout"}
    /\ exec.pc \in {"returned", "raised"} => exec.invocations = Len(exec.delays) + 1

C21_Witness ==
    /\ exec.pc = "raised"
    /\ exec.retries = MaxRetries
    /\ exec.invocations = MaxRetries + 1
    /\ Len(exec.delays) = MaxRetries
    /\ exec.retry_delay = 2

C23_RejectedNeverApplied ==
    /\ \A from_state, to_state \in BmadStates \cup {"", "blocked"} :
            ValidateTransition(from_state, to_state)
                => from_state \in BmadStates /\ to_state \in BmadStates
    /\ \A k \in 1..Len(state_history) :
            ValidateTransition(state_history[k].from_state, state_history[k].to_state)

\* C24: after any sequence of update_sync_state calls sync_state.json holds
\* at most 100 operation records and at most 50 error records, and they are
\* the most recent calls, and the most recent failed calls, in call order.
C24_HistoryCaps ==
    LET operations == log_state.operations
        errors == log_state.errors
        failures == SelectSeq(log_calls, LAMBDA r : r.result = "failure")
    IN /\ Len(operations) <= OperationsKept
       /\ Len(errors) <= ErrorsKept
       /\ Len(operations) = IF Len(log_calls) < OperationsKept
                            THEN Len(log_calls) ELSE OperationsKept
       /\ Len(errors) = IF Len(failures) < ErrorsKept THEN Len(failures) ELSE ErrorsKept
       /\ \A i \in 1..Len(operations) :
            operations[i] = log_calls[Len(log_calls) - Len(operations) + i]
       /\ \A i \in 1..Len(errors) :
            errors[i] = failures[Len(failures) - Len(errors) + i]

\* Both histories are full and calls older than the caps have been dropped.
C24_Witness ==
    /\ Len(log_calls) = OperationsKept + MaxCalls
    /\ Len(log_state.operations) = OperationsKept
    /\ Len(log_state.errors) = ErrorsKept
    /\ log_state.operations[1].timestamp = MaxCalls + 1
    /\ log_state.errors[ErrorsKept].timestamp = Len(log_calls)
    /\ log_state.errors[1].timestamp > MaxCalls + 1

C26_RollbackRestoresLatest ==
    (/\ rb.rolled_back
     /\ Len(rb.outcomes) >= 2
     /\ rb.outcomes[Len(rb.outcomes)] = "failed"
     /\ rb.outcomes[Len(rb.outcomes) - 1] = "ok")
        => rb.files = rb.start

\* Both applies started in second 0, wrote a state file each, and the
\* rollback came after the second one failed.
C26_Witness ==
    /\ rb.rolled_back
    /\ rb.outcomes = <<"ok", "failed">>
    /\ DOMAIN rb.backups = {0}
    /\ rb.written = 2
    /\ rb.start.number_registry = 1
    /\ rb.files = rb.start

\* C27: once the cancellation signal has been given to the portfolio
\* executor, no project that has not started yet is started.
C27_NoStartAfterCancel ==
    [][bulk.interrupted =>
        \A p \in Projects : tasks[p].pc = "queued" => tasks'[p].pc = "queued"]_vars

\* C28: every mutation of number_registry.json is one read-modify-write
\* under the file's lock, so no completed update is lost: an epic range that
\* a completed reserve_epic_range has written to the file is in the file
\* after every later update.
C28_NoLostUpdate ==
    [][\A epic \in DOMAIN number_file.epics :
            /\ epic \in DOMAIN number_file'.epics
            /\ number_file'.epics[epic] = number_file.epics[epic]]_vars

\* C29: in a project's pipeline the conflict-detection pass starts only
\* after apply has finished: a task that is about to run the detection of a
\* project with planned operations, not in dry-run, has its apply behind it
\* (result.success is set right after the apply).
C29_DetectAfterApply ==
    \A p \in Projects :
        (tasks[p].pc = "detect" /\ ~bulk.dry_run /\ tasks[p].result.operations_planned > 0)
            => tasks[p].result.success

C31_TimeoutKeepsLock ==
    /\ \A p \in Acquirers :
            lk_pc[p] = "raised" => \A i \in Inodes : lk_owner[i] # p
    /\ lk_timeouts > 0 =>
            Cardinality({p \in Acquirers : lk_pc[p] = "inside"}) <= 1

\* C32: when apply returns, every issue created in the tracker during that
\* apply is registered under its content key (get_issue_id returns its id),
\* also after a failure and the rollback of the state files.
C32_CreatedRegistered ==
    ApplyReturned =>
        \A x \in created : GetIssueId(hier, registry, x.key) = x.id

\* C32, whole sentence: the registration of C32_CreatedRegistered, with its
\* stated consequence: the sync that follows the apply plans no create for
\* the content of an issue that apply created.
C32_NoSecondCreate ==
    /\ C32_CreatedRegistered
    /\ (pc = "planned" /\ run > 1) =>
            \A x \in created :
                \A i \in 1..Len(ops) :
                    ops[i].action = "create"
                        => GetIssueId(hier, registry, ops[i].content_key) # x.id

\* C33: a story whose tracker state equals bmad_to_linear(its local status)
\* is never reported as a conflict by detect_and_record_conflicts, for every
\* local status and whatever the timestamps.
C33_InSyncNoConflict ==
    (/\ call.fn = "detect_and_record_conflicts" /\ ret.done
     /\ call.linear_state = BmadToLinear(call.strict, call.status))
        => ret.value # "conflict"

\* C34: repeated detection passes over the same unchanged, unresolved
\* divergence leave one pending conflict for its key: no two entries of the
\* pending queue describe the same divergence (key, local state, tracker
\* state).
C34_OnePendingPerDivergence ==
    \A i, j \in 1..Len(pending) :
        (/\ pending[i].content_key = pending[j].content_key
         /\ pending[i].bmad_state = pending[j].bmad_state
         /\ pending[i].linear_state = pending[j].linear_state) => i = j

\* C35: every conflict appended to the pending queue has a fresh id: no two
\* pending conflicts share a conflict_id.
C35_FreshConflictIds ==
    \A i, j \in 1..Len(pending) :
        pending[i].conflict_id = pending[j].conflict_id => i = j

\* C36: for every combination of timestamps with a zone (a trailing Z or an
\* explicit offset) and without one, also with the last_sync that
\* update_sync_state writes, detect_conflict returns a conflict or none and
\* never fails.
C36_NeverFailsOnTimestamps ==
    DetectConflictReturned => ret.value \in {"conflict", "none"}

\* C37: last_sync is the timestamp of the last successful sync: a call of
\* update_sync_state with result 'failure' leaves last_sync unchanged.
C37_FailureKeepsLastSync ==
    [][UpdateSyncStateCall("failure") => log_state'.last_sync = log_state.last_sync]_vars

\* C38: whenever assign_story_number gives a story a number other than the
\* caller's preferred number (outside the epic's range, assigned locally or
\* present in the tracker), that number is the first available number of the
\* epic's range and a conflict entry for the preferred number has been added
\* to the registry's conflicts.
C38_FallbackLogged ==
    [][\A k \in NumberedStories, e \in EpicNumbers, s \in StoryNumbers,
          p \in TrackerNumbers :
            (/\ AssignStoryNumber(k, e, s, p)
             /\ k \notin DOMAIN story_system.registry.stories
             /\ ~num_ret'.raised
             /\ num_ret'.number # p)
                => /\ num_ret'.number
                        = FirstAvailable(story_system.registry.stories,
                              CalculateEpicRange(story_system.epic_base,
                                                 story_system.block_size, e))
                   /\ story_system'.registry.conflicts
                        = story_system.registry.conflicts + 1]_vars

\* C40: when renumber_story fails because the new epic's range has no
\* available number, the registry held by the numbering system still maps
\* the story to its old assignment and renumbering_history is unchanged.
C40_FailedRenumberKeeps ==
    [][\A k \in NumberedStories, e \in EpicNumbers, s \in StoryNumbers :
            (/\ RenumberStory(k, e, s)
             /\ k \in DOMAIN story_system.registry.stories
             /\ num_ret'.raised)
                => /\ k \in DOMAIN story_system'.registry.stories
                   /\ story_system'.registry.stories[k] = story_system.registry.stories[k]
                   /\ story_system'.registry.renumbering_history
                        = story_system.registry.renumbering_history]_vars

\* C39: on a numbering system loaded from a number registry that
\* register_issue has written, assign_story_number and
\* find_next_available_number return a number or raise the ValueError of an
\* exhausted range, and fail in no other way.
C39_RegistryStaysUsable ==
    num_ret.raised => num_ret = ValueError

=============================================================================
